---- MODULE Spec2Model ----
(***************************************************************************)
(* nosqlite: a typed query-building layer over SQLite's Json1 extension.   *)
(*                                                                         *)
(* The model covers the path formatter (format_key), the Key / Filter /    *)
(* Sort expression trees and their rendering, the query builder            *)
(* (Iterator) with its terminal operations, and the part of the engine     *)
(* (SQLite) that the generated statements exercise.                        *)
(*                                                                         *)
(* Strings that the code inspects character by character (keys) are        *)
(* sequences of one-character strings; text that the code only builds      *)
(* with format! is a TLA+ string built with \o.  A statement is the        *)
(* sequence of lexemes the code emits, in the order it emits them.         *)
(* Option<T> is a sequence of length 0 (None) or 1 (Some).                 *)
(***************************************************************************)
EXTENDS Integers, Sequences, FiniteSets, TLC

VARIABLES
    rows,   \* the table: sequence of [id, data] in rowid order
    it,     \* the Iterator (query builder) value
    last,   \* the last call on the table or builder: statement sent, result
    call,   \* the last call of a pure function: [fn, arg, ret]
    created \* whether the table exists in the database

vars == <<rows, it, last, call, created>>

---------------------------------------------------------------------------
(* Bounds                                                                  *)

MaxKeyLen == 3
MaxRows   == 2
MaxSkip   == 1
MaxTake   == 1
MaxSortLeaves == 3

---------------------------------------------------------------------------
(* Characters and strings                                                  *)

\* The alphabet keys are drawn from.  "é" is one char of two UTF-8 bytes.
Chars == {"$", ".", "[", "x", "é"}

\* len_utf8 of a char
ByteLen(c) == IF c = "é" THEN 2 ELSE 1

RECURSIVE StrLen(_)
\* str::len: the length of a string in bytes
StrLen(s) == IF s = <<>> THEN 0 ELSE ByteLen(Head(s)) + StrLen(Tail(s))

RECURSIVE Str(_)
\* the text of a char sequence
Str(s) == IF s = <<>> THEN "" ELSE Head(s) \o Str(Tail(s))

\* Chars::next called for the i-th time: Some(char) or None
CharsNext(key, i) == IF i <= Len(key) THEN <<key[i]>> ELSE <<>>

RECURSIVE SeqsUpTo(_, _)
\* every sequence over S of length at most n
SeqsUpTo(S, n) ==
    IF n = 0 THEN {<<>>}
    ELSE LET shorter == SeqsUpTo(S, n - 1)
         IN  shorter \cup {Append(s, c) : s \in shorter, c \in S}

Keys == SeqsUpTo(Chars, MaxKeyLen)

---------------------------------------------------------------------------
(* Path formatter                                                          *)

\* A formatter that prepends the root marker whatever the key holds.
format_key_always_root(key) == <<"$">> \o key

\* key.rs: format_key
format_key(key) ==
    LET char1 == CharsNext(key, 1)
        c     == CharsNext(key, 2)
        prepend ==
            IF char1 # <<"$">>
            THEN IF /\ char1 # <<".">>
                    /\ char1 # <<"[">>
                    /\ (c # <<>> \/ StrLen(key) = 1)
                 THEN <<"$", ".">>
                 ELSE <<"$">>
            ELSE <<>>
    IN  prepend \o key

\* lib.rs: format_key (the crate root's private formatter)
lib_format_key(key) ==
    LET char1 == CharsNext(key, 1)
        c     == CharsNext(key, 2)
        prepend ==
            IF char1 # <<"$">>
            THEN IF c # <<".">> /\ (c # <<>> \/ StrLen(key) = 1)
                 THEN <<"$", ".">>
                 ELSE <<"$">>
            ELSE <<>>
    IN  prepend \o key

---------------------------------------------------------------------------
(* Key                                                                     *)

\* the field names of the documents, as the caller writes them
AGE == <<"a", "g", "e">>
B   == <<"b">>

\* lib.rs: field (the crate root's constructor, which iterator.rs imports)
field(name) == [t |-> "field", path |-> Str(lib_format_key(name))]

\* lib.rs: column
column(name) == [t |-> "column", name |-> name]

\* Key::key for Field and Column
key(k, data_key) ==
    IF k.t = "field"
    THEN "json_extract(" \o data_key \o ", \"" \o k.path \o "\")"
    ELSE k.name

---------------------------------------------------------------------------
(* Filter                                                                  *)

\* serde_json::to_string of an integer
to_string(v) == ToString(v)

\* an lt that builds the filter of gt
lt_unswapped(k, v) == [t |-> "gt", greater |-> k, lesser |-> ToString(v)]

\* an exists that constrains nothing
exists_unconstrained(k) == [t |-> "unit"]

\* Key::eq, neq, gt, gte, lt, lte, exists: the value is serialized at once
eq(k, v)  == [t |-> "eq",  variable |-> k, value |-> to_string(v)]
neq(k, v) == [t |-> "neq", variable |-> k, value |-> to_string(v)]
gt(k, v)  == [t |-> "gt",  greater |-> k, lesser |-> to_string(v)]
gte(k, v) == [t |-> "gte", greater |-> k, lesser |-> to_string(v)]
lt(k, v)  == [t |-> "lt",  lesser |-> k, greater |-> to_string(v)]
lte(k, v) == [t |-> "lte", lesser |-> k, greater |-> to_string(v)]
exists(k) == [t |-> "exists", variable |-> k]

\* the unit filter and sort ()
Unit == [t |-> "unit"]

\* a String used as a filter (its text as lexemes)
Raw(s) == [t |-> "raw", s |-> s]

\* Filter::and, Filter::or, Filter::not and Sort::and
And(a, b) == [t |-> "and", first |-> a, second |-> b]
Or(a, b)  == [t |-> "or", first |-> a, second |-> b]
Not(a)    == [t |-> "not", inner |-> a]

\* an unwrapping that gives the text 1 for None
unwrap_or_default_true(o) == IF o = <<>> THEN <<"1">> ELSE o[1]

\* Option::unwrap_or_default on Option<String>: None gives the empty text
unwrap_or_default(o) == IF o = <<>> THEN <<>> ELSE o[1]

RECURSIVE where_(_, _)
\* Filter::where_ of every implementor: Option<String>, the text as lexemes
where_(f, data_key) ==
    CASE f.t = "unit" -> <<>>
      [] f.t = "raw"  -> <<f.s>>
      [] f.t = "and"  ->
            << <<"(">> \o unwrap_or_default(where_(f.first, data_key))
                 \o <<"AND">> \o unwrap_or_default(where_(f.second, data_key))
                 \o <<")">> >>
      [] f.t = "or"   ->
            << <<"(">> \o unwrap_or_default(where_(f.first, data_key))
                 \o <<"OR">> \o unwrap_or_default(where_(f.second, data_key))
                 \o <<")">> >>
      [] f.t = "not"  ->
            << <<"NOT", "(">> \o unwrap_or_default(where_(f.inner, data_key))
                 \o <<")">> >>
      [] f.t = "eq"   -> << <<key(f.variable, data_key), "=", f.value>> >>
      [] f.t = "neq"  -> << <<key(f.variable, data_key), "!=", f.value>> >>
      [] f.t = "gt"   -> << <<key(f.greater, data_key), ">", f.lesser>> >>
      [] f.t = "gte"  -> << <<key(f.greater, data_key), ">=", f.lesser>> >>
      [] f.t = "lt"   -> << <<key(f.lesser, data_key), "<", f.greater>> >>
      [] f.t = "lte"  -> << <<key(f.lesser, data_key), "<=", f.greater>> >>
      [] f.t = "exists" -> << <<key(f.variable, data_key), "IS NOT NULL">> >>

---------------------------------------------------------------------------
(* Sort                                                                    *)

\* Key::ascending, Key::descending
ascending(k)  == [t |-> "asc", k |-> k]
descending(k) == [t |-> "desc", k |-> k]

\* SortOrder::key
SortOrder_key(s, data_key) ==
    key(s.k, data_key) \o (IF s.t = "asc" THEN " ASC" ELSE " DESC")

RECURSIVE order_by_swapped(_, _)
\* a rendering that lists the second operand of and() before the first
order_by_swapped(s, data_key) ==
    CASE s.t = "unit" -> <<>>
      [] s.t = "and"  -> order_by_swapped(s.second, data_key)
                            \o order_by_swapped(s.first, data_key)
      [] OTHER        -> <<SortOrder_key(s, data_key)>>

RECURSIVE order_by(_, _)
\* Sort::order_by of (), SortOrder<K> and And<A, B>: Vec<String>
order_by(s, data_key) ==
    CASE s.t = "unit" -> <<>>
      [] s.t = "and"  -> order_by(s.first, data_key) \o order_by(s.second, data_key)
      [] OTHER        -> <<SortOrder_key(s, data_key)>>

---------------------------------------------------------------------------
(* Table and Iterator                                                      *)

\* Connection::table: the descriptor of the table "people"
Table == [id |-> "id", data |-> "data", name |-> "people"]

\* Table::iter
iter(table) ==
    [ data_key  |-> table.data,
      id_key    |-> table.id,
      limit     |-> <<>>,
      offset    |-> <<>>,
      order_by  |-> Unit,
      table_key |-> table.name,
      where_    |-> Unit ]

\* a filter() that intersects the new filter with the one already set
filter_intersecting(self, f) ==
    [self EXCEPT !.where_ = IF self.where_ = Unit THEN f ELSE And(self.where_, f)]

\* a filter() that forgets the skip and take set before
filter_resetting_window(self, f) ==
    [ where_    |-> f,
      id_key    |-> self.id_key,
      limit     |-> <<>>,
      offset    |-> <<>>,
      order_by  |-> self.order_by,
      table_key |-> self.table_key,
      data_key  |-> self.data_key ]

\* Iterator::filter
filter(self, f) ==
    [ where_    |-> f,
      id_key    |-> self.id_key,
      limit     |-> self.limit,
      offset    |-> self.offset,
      order_by  |-> self.order_by,
      table_key |-> self.table_key,
      data_key  |-> self.data_key ]

\* Iterator::sort
sort(self, s) ==
    [ data_key  |-> self.data_key,
      where_    |-> self.where_,
      id_key    |-> self.id_key,
      limit     |-> self.limit,
      offset    |-> self.offset,
      order_by  |-> s,
      table_key |-> self.table_key ]

\* a skip() that adds to the offset set before
skip_accumulating(self, n) ==
    [self EXCEPT !.offset = <<(IF self.offset = <<>> THEN 0 ELSE self.offset[1]) + n>>]

\* Iterator::skip
skip(self, n) == [self EXCEPT !.offset = <<n>>]

\* Iterator::take
take(self, n) == [self EXCEPT !.limit = <<n>>]

RECURSIVE FoldOrder(_, _, _)
\* the fold of make_clauses over the sort keys: a comma before every key
\* but the first
FoldOrder(order, first_time, string) ==
    IF order = <<>> THEN string
    ELSE FoldOrder(Tail(order), FALSE,
                   string \o (IF first_time THEN <<>> ELSE <<",">>)
                          \o <<Head(order)>>)

\* Iterator::make_clauses: format!("{} {} {}", where_, limit, order)
make_clauses(self) ==
    LET w == where_(self.where_, self.data_key)
        where_text == IF w = <<>> THEN <<>> ELSE <<"WHERE">> \o w[1]
        limit ==
            IF self.limit = <<>> /\ self.offset = <<>> THEN <<>>
            ELSE << "LIMIT",
                    ToString(IF self.limit = <<>> THEN -1 ELSE self.limit[1]),
                    "OFFSET",
                    ToString(IF self.offset = <<>> THEN 0 ELSE self.offset[1]) >>
        order == order_by(self.order_by, self.data_key)
        order_text == IF order = <<>> THEN <<>>
                      ELSE FoldOrder(order, TRUE, <<"ORDER BY">>)
    IN  where_text \o limit \o order_text

---------------------------------------------------------------------------
(* Values: JSON documents and SQL column values                            *)

\* JSON values; Absent marks a member an object does not have
Absent      == [j |-> "absent"]
JNull       == [j |-> "null"]
JNum(n)     == [j |-> "num", n |-> n]
JArr(items) == [j |-> "arr", items |-> items]
JObj(m)     == [j |-> "obj", m |-> m]

\* the member names documents are built from
FieldNames == {Str(AGE), Str(B)}

\* SQL values: NULL, INTEGER, and TEXT holding the serialization of a JSON
\* value (the text is identified with the JSON value it denotes)
SNull    == [s |-> "null"]
SInt(n)  == [s |-> "int", n |-> n]
SText(j) == [s |-> "text", json |-> j]

\* REAL and BLOB column values; Malformed stands for bytes that are no JSON
SReal     == [s |-> "real"]
SBlob(j)  == [s |-> "blob", json |-> j]
Malformed == [j |-> "malformed"]

\* impl ToSql for Json<T>: Value::Text(to_string(data))
Json_to_sql(data) == SText(data)

---------------------------------------------------------------------------
(* The engine: SQLite with the Json1 extension, as far as the generated    *)
(* statements exercise it.  It reads the statement's lexemes only.         *)

\* the integer literals the engine's tokenizer is given in this model
IntLits == -1 .. 9

\* the i-th lexeme, or an end marker
Tok(toks, i) == IF i >= 1 /\ i <= Len(toks) THEN toks[i] ELSE "<end>"

\* an integer literal read back from its text: Some(n) or None
ParseInt(tok) ==
    LET c == {n \in IntLits : ToString(n) = tok}
    IN  IF c = {} THEN <<>> ELSE <<CHOOSE n \in c : TRUE>>

\* a JSON path read back from its text: member steps, or an error
ParsePath(path) ==
    IF path = "$" THEN [ok |-> TRUE, steps |-> <<>>]
    ELSE LET c == {n \in FieldNames : path = "$." \o n}
         IN  IF c = {} THEN [ok |-> FALSE, steps |-> <<>>]
             ELSE [ok |-> TRUE, steps |-> <<CHOOSE n \in c : TRUE>>]

\* the path texts that resolve in this model
PathTexts == {"$"} \cup {"$." \o n : n \in FieldNames}

RECURSIVE PathArgs(_)
\* the arguments ,"p1","p2",... of a call
PathArgs(paths) ==
    IF paths = <<>> THEN ""
    ELSE ",\"" \o Head(paths) \o "\"" \o PathArgs(Tail(paths))

\* the terms (columns and json_extract calls) the engine resolves against
\* the table (id, data), with the lexeme of each
EngineTerms ==
    {[lex |-> "id", e |-> "col", c |-> "id", paths |-> <<>>],
     [lex |-> "data", e |-> "col", c |-> "data", paths |-> <<>>]}
    \cup {[lex |-> "json_extract(data, \"" \o p \o "\")",
           e |-> "extract", c |-> "data", paths |-> <<p>>] : p \in PathTexts}
    \cup {[lex |-> "json_extract(data" \o PathArgs(ps) \o ")",
           e |-> "extract", c |-> "data", paths |-> ps] :
              ps \in SeqsUpTo(PathTexts, 2)}

\* a term read back from its lexeme: Some(term) or None
ParseTerm(tok) ==
    LET c == {x \in EngineTerms : x.lex = tok}
    IN  IF c = {} THEN <<>> ELSE <<CHOOSE x \in c : TRUE>>

CmpOps == {"=", "!=", ">", ">=", "<", "<="}

Bad == [ok |-> FALSE, e |-> [e |-> "none"], p |-> 0]

RECURSIVE ParseExpr(_, _)

\* ( l AND|OR r ) with l and r parsed
AfterRight(toks, l, r) ==
    IF ~r.ok \/ Tok(toks, r.p) # ")" THEN Bad
    ELSE [ok |-> TRUE, e |-> [e |-> Tok(toks, l.p), l |-> l.e, r |-> r.e],
          p |-> r.p + 1]

\* ( l AND|OR ... with l parsed
AfterLeft(toks, l) ==
    IF ~l.ok \/ Tok(toks, l.p) \notin {"AND", "OR"} THEN Bad
    ELSE AfterRight(toks, l, ParseExpr(toks, l.p + 1))

\* NOT ( x ) with x parsed
AfterNot(toks, x) ==
    IF ~x.ok \/ Tok(toks, x.p) # ")" THEN Bad
    ELSE [ok |-> TRUE, e |-> [e |-> "NOT", x |-> x.e], p |-> x.p + 1]

\* k IS NOT NULL, or k <op> <integer>, with the term k parsed at lexeme p
ParseCmp(toks, p, k, n) ==
    IF k = <<>> THEN Bad
    ELSE IF Tok(toks, p + 1) = "IS NOT NULL"
    THEN [ok |-> TRUE, e |-> [e |-> "NOTNULL", k |-> k[1]], p |-> p + 2]
    ELSE IF Tok(toks, p + 1) \in CmpOps /\ n # <<>>
    THEN [ok |-> TRUE,
          e |-> [e |-> "CMP", k |-> k[1], op |-> Tok(toks, p + 1), n |-> n[1]],
          p |-> p + 3]
    ELSE Bad

\* a boolean expression starting at lexeme p: [ok, e, p] with p the
\* position after it
ParseExpr(toks, p) ==
    CASE Tok(toks, p) = "(" -> AfterLeft(toks, ParseExpr(toks, p + 1))
      [] Tok(toks, p) = "NOT" ->
            IF Tok(toks, p + 1) # "(" THEN Bad
            ELSE AfterNot(toks, ParseExpr(toks, p + 2))
      [] OTHER -> ParseCmp(toks, p, ParseTerm(Tok(toks, p)),
                           ParseInt(Tok(toks, p + 2)))

\* the sort keys with their lexemes
EngineKeys ==
    {[lex |-> x.lex \o (IF a THEN " ASC" ELSE " DESC"), k |-> x, asc |-> a] :
        x \in EngineTerms, a \in BOOLEAN}

\* a sort key read back from its lexeme: Some(key) or None
ParseKey(tok) ==
    IF \E y \in EngineKeys : y.lex = tok
    THEN <<CHOOSE y \in EngineKeys : y.lex = tok>>
    ELSE <<>>

\* a key followed by the keys after it
KeysWith(y, rest) == [ok |-> rest.ok, keys |-> <<y>> \o rest.keys, p |-> rest.p]

RECURSIVE ParseKeys(_, _)

\* the keys from lexeme p on, with the key y at p parsed
KeysFrom(toks, p, y) ==
    IF y = <<>> THEN [ok |-> FALSE, keys |-> <<>>, p |-> p]
    ELSE IF Tok(toks, p + 1) = "," THEN KeysWith(y[1], ParseKeys(toks, p + 2))
    ELSE [ok |-> TRUE, keys |-> y, p |-> p + 1]

\* the list of ORDER BY keys starting at lexeme p: [ok, keys, p]
ParseKeys(toks, p) == KeysFrom(toks, p, ParseKey(Tok(toks, p)))

\* the WHERE clause at the head of the clauses, if any: [ok, e, p]
ParseWhere(toks) ==
    IF Tok(toks, 1) = "WHERE" THEN ParseExpr(toks, 2)
    ELSE [ok |-> TRUE, e |-> [e |-> "none"], p |-> 1]

\* the ORDER BY clause after the WHERE clause w, if any: [ok, keys, p]
ParseOrder(toks, select, w) ==
    IF w.ok /\ select /\ Tok(toks, w.p) = "ORDER BY"
    THEN ParseKeys(toks, w.p + 1)
    ELSE [ok |-> w.ok, keys |-> <<>>, p |-> w.p]

\* the LIMIT n OFFSET m clause at lexeme p, if any: [ok, limit, offset, p]
ParseLimit(toks, select, ok, p, n, m) ==
    IF ok /\ select /\ Tok(toks, p) = "LIMIT"
    THEN IF n # <<>> /\ Tok(toks, p + 2) = "OFFSET" /\ m # <<>>
         THEN [ok |-> TRUE, limit |-> n[1], offset |-> m[1], p |-> p + 4]
         ELSE [ok |-> FALSE, limit |-> -1, offset |-> 0, p |-> p]
    ELSE [ok |-> ok, limit |-> -1, offset |-> 0, p |-> p]

\* the parsed clauses, accepted when nothing is left after them
Clauses(toks, w, o, l) ==
    [ok |-> l.ok /\ l.p = Len(toks) + 1,
     where |-> w.e, keys |-> o.keys, limit |-> l.limit, offset |-> l.offset]

ClausesAfterOrder(toks, select, w, o) ==
    Clauses(toks, w, o,
            ParseLimit(toks, select, o.ok, o.p,
                       ParseInt(Tok(toks, o.p + 1)), ParseInt(Tok(toks, o.p + 3))))

ClausesAfterWhere(toks, select, w) ==
    ClausesAfterOrder(toks, select, w, ParseOrder(toks, select, w))

\* the clauses after FROM <table>, in the order the grammar fixes:
\* [WHERE expr] [ORDER BY keys] [LIMIT n OFFSET m].  select says whether
\* ORDER BY and LIMIT may appear (they may not in UPDATE and DELETE).
ParseClauses(toks, select) == ClausesAfterWhere(toks, select, ParseWhere(toks))

\* the JSON value at a path of member steps; Absent when there is none
Lookup(j, steps) ==
    IF steps = <<>> THEN j
    ELSE IF j.j = "obj" THEN j.m[steps[1]] ELSE Absent

\* the SQL value json_extract gives for one JSON value
SqlOf(j) ==
    CASE j.j \in {"absent", "null"} -> SNull
      [] j.j = "num" -> SInt(j.n)
      [] OTHER -> SText(j)

\* json_extract(data, p1, ..., pn): no path gives NULL, one path the SQL
\* value at it, several paths a JSON array text with null for a missing one
json_extract(data, paths) ==
    IF data.s # "text" THEN SNull
    ELSE LET at(i) == Lookup(data.json, ParsePath(paths[i]).steps)
         IN  CASE Len(paths) = 0 -> SNull
               [] Len(paths) = 1 -> SqlOf(at(1))
               [] OTHER -> SText(JArr([i \in 1 .. Len(paths) |->
                                IF at(i) = Absent THEN JNull ELSE at(i)]))

\* the value of a term in a row
EvalTerm(term, row) ==
    IF term.e = "col"
    THEN IF term.c = "id" THEN SInt(row.id) ELSE row.data
    ELSE json_extract(row.data, term.paths)

\* the order of SQL values: NULL, then integers by value, then text
Rank(v) == CASE v.s = "null" -> 0 [] v.s = "int" -> 1 [] OTHER -> 2

SqlLess(a, b) ==
    \/ Rank(a) < Rank(b)
    \/ a.s = "int" /\ b.s = "int" /\ a.n < b.n

\* a comparison in which NULL compares false instead of NULL
Compare_two_valued(a, op, b) ==
    IF a.s = "null" \/ b.s = "null" THEN "F"
    ELSE LET r == CASE op = "="  -> a = b
                    [] op = "!=" -> a # b
                    [] op = "<"  -> SqlLess(a, b)
                    [] op = "<=" -> ~SqlLess(b, a)
                    [] op = ">"  -> SqlLess(b, a)
                    [] op = ">=" -> ~SqlLess(a, b)
         IN  IF r THEN "T" ELSE "F"

\* a comparison in three-valued logic: "T", "F" or "N" (NULL)
Compare(a, op, b) ==
    IF a.s = "null" \/ b.s = "null" THEN "N"
    ELSE LET r == CASE op = "="  -> a = b
                    [] op = "!=" -> a # b
                    [] op = "<"  -> SqlLess(a, b)
                    [] op = "<=" -> ~SqlLess(b, a)
                    [] op = ">"  -> SqlLess(b, a)
                    [] op = ">=" -> ~SqlLess(a, b)
         IN  IF r THEN "T" ELSE "F"

RECURSIVE Eval3(_, _)
\* a parsed expression on a row, in three-valued logic
Eval3(e, row) ==
    CASE e.e = "none" -> "T"
      [] e.e = "CMP" -> Compare(EvalTerm(e.k, row), e.op, SInt(e.n))
      [] e.e = "NOTNULL" -> IF EvalTerm(e.k, row) = SNull THEN "F" ELSE "T"
      [] e.e = "NOT" ->
            LET x == Eval3(e.x, row)
            IN  CASE x = "T" -> "F" [] x = "F" -> "T" [] OTHER -> "N"
      [] e.e = "AND" ->
            LET l == Eval3(e.l, row)
                r == Eval3(e.r, row)
            IN  CASE l = "F" \/ r = "F" -> "F"
                  [] l = "T" /\ r = "T" -> "T"
                  [] OTHER -> "N"
      [] e.e = "OR" ->
            LET l == Eval3(e.l, row)
                r == Eval3(e.r, row)
            IN  CASE l = "T" \/ r = "T" -> "T"
                  [] l = "F" /\ r = "F" -> "F"
                  [] OTHER -> "N"

\* the rows a WHERE expression selects: those on which it is true
RECURSIVE Select(_, _)
Select(e, rs) ==
    IF rs = <<>> THEN <<>>
    ELSE (IF Eval3(e, Head(rs)) = "T" THEN <<Head(rs)>> ELSE <<>>)
            \o Select(e, Tail(rs))

RECURSIVE RowLess(_, _, _)
\* r1 sorts strictly before r2 under the ORDER BY keys, leftmost key first
RowLess(keys, r1, r2) ==
    IF keys = <<>> THEN FALSE
    ELSE LET a == EvalTerm(Head(keys).k, r1)
             b == EvalTerm(Head(keys).k, r2)
             lo == IF Head(keys).asc THEN SqlLess(a, b) ELSE SqlLess(b, a)
             hi == IF Head(keys).asc THEN SqlLess(b, a) ELSE SqlLess(a, b)
         IN  IF lo THEN TRUE
             ELSE IF hi THEN FALSE
             ELSE RowLess(Tail(keys), r1, r2)

RECURSIVE InsertRow(_, _, _)
InsertRow(keys, sorted, r) ==
    IF sorted = <<>> THEN <<r>>
    ELSE IF RowLess(keys, r, sorted[Len(sorted)])
    THEN Append(InsertRow(keys, SubSeq(sorted, 1, Len(sorted) - 1), r),
                sorted[Len(sorted)])
    ELSE Append(sorted, r)

RECURSIVE SortRows(_, _)
\* ORDER BY: rows with equal keys keep their rowid order
SortRows(keys, rs) ==
    IF rs = <<>> THEN <<>>
    ELSE InsertRow(keys, SortRows(keys, SubSeq(rs, 1, Len(rs) - 1)),
                   rs[Len(rs)])

\* LIMIT n OFFSET m: m rows are skipped, then n are kept (all when n < 0)
Window(rs, n, m) ==
    LET from == m + 1
        to   == IF n < 0 \/ m + n > Len(rs) THEN Len(rs) ELSE m + n
    IN  SubSeq(rs, from, to)

\* a result column followed by the columns after it
ProjWith(k, rest) == [ok |-> rest.ok, terms |-> <<k>> \o rest.terms, p |-> rest.p]

RECURSIVE ParseProj(_, _)

\* the result columns from lexeme p on, with the term k at p parsed
ProjFrom(toks, p, k) ==
    IF k = <<>> THEN [ok |-> FALSE, terms |-> <<>>, p |-> p]
    ELSE IF Tok(toks, p + 1) = "," THEN ProjWith(k[1], ParseProj(toks, p + 2))
    ELSE [ok |-> Tok(toks, p + 1) = "FROM", terms |-> k, p |-> p + 1]

\* the result columns after SELECT, up to FROM: [ok, terms, p]
ParseProj(toks, p) == ProjFrom(toks, p, ParseTerm(Tok(toks, p)))

\* the result columns of the rows hit, each row with the rowid it came from
Project(terms, hit) ==
    [i \in 1 .. Len(hit) |->
        [id |-> hit[i].id,
         cols |-> [c \in 1 .. Len(terms) |-> EvalTerm(terms[c], hit[i])]]]

\* run a parsed SELECT: WHERE, then ORDER BY, then LIMIT and OFFSET
RunSelect(toks, table, proj, cl) ==
    IF ~(/\ Tok(toks, 1) = "SELECT"
         /\ proj.ok
         /\ Tok(toks, proj.p + 1) = Table.name
         /\ cl.ok)
    THEN [ok |-> FALSE, err |-> "statement", out |-> <<>>]
    ELSE [ok |-> TRUE, err |-> "",
          out |-> Project(proj.terms,
                          Window(SortRows(cl.keys, Select(cl.where, table)),
                                 cl.limit, cl.offset))]

PrepareSelect(toks, table, proj) ==
    RunSelect(toks, table, proj,
              ParseClauses(SubSeq(toks, proj.p + 2, Len(toks)), TRUE))

\* prepare and run a SELECT on the table: the result rows in order, each
\* with the rowid it came from, or a statement error
ExecSelect(toks, table) == PrepareSelect(toks, table, ParseProj(toks, 2))

\* the calls UPDATE ... SET data = <call> may hold, with the lexeme of each
EngineCalls ==
    {[lex |-> "json_" \o fn \o "(data,\"" \o p \o "\",:value)",
      fn |-> fn, path |-> p] : fn \in {"set", "insert", "replace"}, p \in PathTexts}
    \cup {[lex |-> "json_remove(data, '" \o p \o "')",
           fn |-> "remove", path |-> p] : p \in PathTexts}
    \cup {[lex |-> "json_patch(data,:value)", fn |-> "patch", path |-> "$"]}

\* the JSON value of a bound SQL parameter
JsonOf(v) ==
    CASE v.s = "int" -> JNum(v.n)
      [] v.s = "text" -> v.json
      [] OTHER -> JNull

\* RFC 7396 merge of a patch into a document: members of the patch replace
\* the document's (arrays as a whole), a null member removes
MergePatch(j, patch) ==
    IF patch.j # "obj" THEN patch
    ELSE JObj([n \in FieldNames |->
                CASE patch.m[n] = Absent -> (IF j.j = "obj" THEN j.m[n] ELSE Absent)
                  [] patch.m[n] = JNull -> Absent
                  [] OTHER -> patch.m[n]])

\* json_set / json_insert / json_replace / json_remove / json_patch on the
\* document of one row: the new column value
ApplyCall(fn, data, steps, value) ==
    LET j   == data.json
        has == Lookup(j, steps) # Absent
        put == IF steps = <<>> THEN JsonOf(value)
               ELSE IF j.j = "obj" THEN [j EXCEPT !.m[steps[1]] = JsonOf(value)]
               ELSE j
    IN  CASE data.s # "text" -> SNull
          [] fn = "set" -> SText(put)
          [] fn = "insert" -> IF has THEN data ELSE SText(put)
          [] fn = "replace" -> IF has THEN SText(put) ELSE data
          [] fn = "remove" ->
                IF steps = <<>> THEN SNull
                ELSE IF j.j = "obj" THEN SText([j EXCEPT !.m[steps[1]] = Absent])
                ELSE data
          [] fn = "patch" -> SText(MergePatch(j, JsonOf(value)))

\* a call read back from its lexeme: Some(call) or None
ParseCall(tok) ==
    IF \E x \in EngineCalls : x.lex = tok
    THEN <<CHOOSE x \in EngineCalls : x.lex = tok>>
    ELSE <<>>

RECURSIVE Updated_selected_only(_, _, _, _)
\* an UPDATE that keeps only the rows it changed
Updated_selected_only(x, e, value, table) ==
    IF table = <<>> THEN <<>>
    ELSE (IF Eval3(e, Head(table)) = "T"
          THEN <<[Head(table) EXCEPT !.data =
                    ApplyCall(x.fn, Head(table).data, ParsePath(x.path).steps, value)]>>
          ELSE <<>>)
            \o Updated_selected_only(x, e, value, Tail(table))

\* UPDATE: the rows the WHERE expression selects get the call's value
Updated(x, e, value, table) ==
    [i \in 1 .. Len(table) |->
        IF Eval3(e, table[i]) = "T"
        THEN [table[i] EXCEPT !.data =
                ApplyCall(x.fn, table[i].data, ParsePath(x.path).steps, value)]
        ELSE table[i]]

RECURSIVE Deleted(_, _)
\* DELETE: the rows the WHERE expression selects are removed
Deleted(e, rs) ==
    IF rs = <<>> THEN <<>>
    ELSE (IF Eval3(e, Head(rs)) = "T" THEN <<>> ELSE <<Head(rs)>>)
            \o Deleted(e, Tail(rs))

\* data TEXT NOT NULL: an UPDATE that would store NULL fails and changes
\* nothing
Constrained(table, new) ==
    IF \E i \in 1 .. Len(new) : new[i].data = SNull
    THEN [ok |-> FALSE, err |-> "constraint", rows |-> table]
    ELSE [ok |-> TRUE, err |-> "", rows |-> new]

\* run a parsed UPDATE or DELETE
RunWrite(toks, value, table, update, x, cl) ==
    IF ~(/\ cl.ok
         /\ IF update
            THEN /\ Tok(toks, 2) = Table.name
                 /\ Tok(toks, 3) = "SET"
                 /\ Tok(toks, 4) = "data"
                 /\ Tok(toks, 5) = "="
                 /\ x # <<>>
            ELSE /\ Tok(toks, 1) = "DELETE"
                 /\ Tok(toks, 2) = "FROM"
                 /\ Tok(toks, 3) = Table.name)
    THEN [ok |-> FALSE, err |-> "statement", rows |-> table]
    ELSE IF ~update THEN [ok |-> TRUE, err |-> "", rows |-> Deleted(cl.where, table)]
    ELSE Constrained(table, Updated(x[1], cl.where, value, table))

PrepareWrite(toks, value, table, update) ==
    RunWrite(toks, value, table, update, ParseCall(Tok(toks, 6)),
             ParseClauses(SubSeq(toks, IF update THEN 7 ELSE 4, Len(toks)), FALSE))

\* prepare and run an UPDATE or DELETE: the new table, or a statement error.
\* ORDER BY and LIMIT are no part of UPDATE and DELETE; data is NOT NULL.
ExecWrite(toks, value, table) ==
    PrepareWrite(toks, value, table, Tok(toks, 1) = "UPDATE")

\* the largest rowid of the table, 0 when it is empty
MaxRowid(table) ==
    LET ids == {table[i].id : i \in 1 .. Len(table)}
    IN  IF ids = {} THEN 0 ELSE CHOOSE m \in ids : \A n \in ids : n <= m

\* an INSERT that leaves out a document the table already holds
ExecInsert_once(value, table) ==
    IF \E i \in 1 .. Len(table) : table[i].data = value THEN table
    ELSE Append(table, [id |-> MaxRowid(table) + 1, data |-> value])

\* INSERT INTO <table> (data) VALUES (?): the rowid is one more than the
\* largest in the table
ExecInsert(value, table) ==
    Append(table, [id |-> MaxRowid(table) + 1, data |-> value])

---------------------------------------------------------------------------
(* Conversions of column values to the types the caller asks for           *)

\* the requested types of this model
TU8       == [ty |-> "u8"]
TI64      == [ty |-> "i64"]
TOpt(t)   == [ty |-> "opt", of |-> t]
TValue    == [ty |-> "value"]
TPerson   == [ty |-> "struct", of |-> TU8]
TTuple(t) == [ty |-> "tuple", of |-> t]

Converted(v) == [ok |-> TRUE, err |-> "", val |-> v]
Failed(e)    == [ok |-> FALSE, err |-> e, val |-> <<>>]

RECURSIVE column_result(_, _)
\* FromSql::column_result of the integer types and of Option<T>
column_result(t, v) ==
    CASE t.ty = "opt" ->
            IF v.s = "null" THEN Converted(<<>>)
            ELSE LET r == column_result(t.of, v)
                 IN  IF r.ok THEN Converted(<<r.val>>) ELSE r
      [] t.ty = "u8" ->
            IF v.s # "int" THEN Failed("InvalidType")
            ELSE IF v.n < 0 \/ v.n > 255 THEN Failed("OutOfRange")
            ELSE Converted(v.n)
      [] t.ty = "i64" ->
            IF v.s # "int" THEN Failed("InvalidType") ELSE Converted(v.n)

RECURSIVE from_value(_, _)
\* serde_json::from_value into the requested type
from_value(t, j) ==
    CASE t.ty = "value" -> Converted(j)
      [] t.ty = "u8" ->
            IF j.j = "num" /\ j.n >= 0 /\ j.n <= 255 THEN Converted(j.n)
            ELSE Failed("Other")
      [] t.ty = "opt" ->
            IF j.j = "null" THEN Converted(<<>>)
            ELSE LET r == from_value(t.of, j)
                 IN  IF r.ok THEN Converted(<<r.val>>) ELSE r
      [] t.ty = "struct" ->
            IF j.j # "obj" \/ j.m[Str(AGE)] = Absent THEN Failed("Other")
            ELSE LET r == from_value(t.of, j.m[Str(AGE)])
                 IN  IF r.ok THEN Converted([age |-> r.val]) ELSE r
      [] t.ty = "tuple" ->
            IF j.j # "arr" \/ Len(j.items) # Len(t.of) THEN Failed("Other")
            ELSE LET r == [i \in 1 .. Len(t.of) |-> from_value(t.of[i], j.items[i])]
                 IN  IF \A i \in 1 .. Len(r) : r[i].ok
                     THEN Converted([i \in 1 .. Len(r) |-> r[i].val])
                     ELSE Failed("Other")

\* serde_json::from_slice: the bytes parsed into a generic value
from_slice(j) == IF j = Malformed THEN Failed("Other") ELSE Converted(j)

\* a decoding that reads an integer column as the JSON number it shows
Json_column_result_lenient(t, v) ==
    IF v.s \in {"text", "blob"}
    THEN IF from_slice(v.json).ok THEN from_value(t, from_slice(v.json).val)
         ELSE from_slice(v.json)
    ELSE IF v.s = "int" THEN from_value(t, JNum(v.n))
    ELSE Failed("InvalidType")

\* impl FromSql for Json<T>: text or blob is parsed and the value mapped
\* onto T, each with the error Other; any other column value is InvalidType
Json_column_result(t, v) ==
    IF v.s \in {"text", "blob"}
    THEN IF from_slice(v.json).ok THEN from_value(t, from_slice(v.json).val)
         ELSE from_slice(v.json)
    ELSE Failed("InvalidType")

---------------------------------------------------------------------------
(* State                                                                   *)

NoCall == [fn |-> "none", arg |-> <<>>, ret |-> <<>>, n |-> 0]
\* last: the call (op, names, ty, value; old and arg of a builder call), the
\* statement sent, the rows the engine returned for it and the call's result
NoLast == [op |-> "none", names |-> <<>>, ty |-> TI64, value |-> SNull,
           old |-> Unit, arg |-> Unit, n |-> 0, id |-> 0,
           stmt |-> <<>>, out |-> <<>>, res |-> [ok |-> TRUE, err |-> "", vals |-> <<>>]]

Reads  == {"data", "entry", "id", "field", "fields"}
Writes == {"insert", "patch", "remove", "replace", "set", "delete"}

---------------------------------------------------------------------------
(* Terminal operations of Iterator                                         *)

Ok(vals) == [ok |-> TRUE, err |-> "", vals |-> vals]
Err(e)   == [ok |-> FALSE, err |-> e, vals |-> <<>>]

RECURSIVE filter_map_ok(_)
\* .filter_map(Result::ok): the rows that failed are dropped
filter_map_ok(rs) ==
    IF rs = <<>> THEN <<>>
    ELSE (IF Head(rs).ok THEN <<Head(rs).val>> ELSE <<>>)
            \o filter_map_ok(Tail(rs))

\* a collection that returns the first failed row's error
get_first_column_strict(got) ==
    IF \A i \in 1 .. Len(got) : got[i].ok
    THEN Ok([i \in 1 .. Len(got) |-> got[i].val])
    ELSE Err((CHOOSE r \in {got[i] : i \in 1 .. Len(got)} : ~r.ok).err)

\* get_first_column and the closure of entry: got is the sequence of
\* per-row conversion results
get_first_column(got) == Ok(filter_map_ok(got))

\* Entry::from_row
Entry_from_row(t, cols) ==
    LET id   == column_result(TI64, cols[1])
        data == Json_column_result(t, cols[2])
    IN  IF ~id.ok THEN id
        ELSE IF ~data.ok THEN data
        ELSE Converted([id |-> id.val, data |-> data.val])

\* the conversion a read applies to one result row
RowGet(op, t, cols) ==
    CASE op \in {"data", "fields"} -> Json_column_result(t, cols[1])
      [] op \in {"id", "field"} -> column_result(t, cols[1])
      [] op = "entry" -> Entry_from_row(t, cols)

RECURSIVE FoldFields(_)
\* the fold of fields(): ,"<path>" for every name, each path formatted
FoldFields(names) ==
    IF names = <<>> THEN ""
    ELSE ",\"" \o Str(lib_format_key(Head(names))) \o "\""
            \o FoldFields(Tail(names))

\* the command each read hands to execute
Command(self, op, names) ==
    CASE op = "data"   -> <<"SELECT", self.data_key>>
      [] op = "entry"  -> <<"SELECT", self.id_key, ",", self.data_key>>
      [] op = "id"     -> <<"SELECT", self.id_key>>
      [] op = "field"  -> <<"SELECT", key(field(names[1]), self.data_key)>>
      [] op = "fields" ->
            <<"SELECT", "json_extract(" \o self.data_key \o FoldFields(names) \o ")">>
      [] op = "delete" -> <<"DELETE">>

\* Iterator::execute: "{command} FROM {table} {clauses}"
Statement(self, command) ==
    command \o <<"FROM", self.table_key>> \o make_clauses(self)

\* the call record of a read: the statement, the engine's rows and the
\* collected result
Collected(op, names, t, stmt, q) ==
    [NoLast EXCEPT
        !.op = op, !.names = names, !.ty = t, !.stmt = stmt, !.out = q.out,
        !.res = IF ~q.ok THEN Err(q.err)
                ELSE get_first_column([i \in 1 .. Len(q.out) |->
                                         RowGet(op, t, q.out[i].cols)])]

\* execute with the closure of a read: prepare, query, collect
Execute(op, names, t, stmt, table) ==
    Collected(op, names, t, stmt, ExecSelect(stmt, table))

\* Iterator::data, entry, id, field, fields
Read(self, op, names, t, table) ==
    Execute(op, names, t, Statement(self, Command(self, op, names)), table)

\* a SET text whose set calls json_replace
SetValue_set_replaces(self, op, names) ==
    LET path == Str(lib_format_key(names[1]))
        fn   == IF op = "set" THEN "replace" ELSE op
    IN  CASE op \in {"insert", "replace", "set"} ->
                <<self.data_key, "=",
                  "json_" \o fn \o "(" \o self.data_key \o ",\"" \o path
                          \o "\",:value)">>
          [] op = "remove" ->
                <<self.data_key, "=",
                  "json_remove(" \o self.data_key \o ", '" \o path \o "')">>
          [] op = "patch" ->
                <<self.data_key, "=", "json_patch(" \o self.data_key \o ",:value)">>

\* a SET text whose insert calls json_set
SetValue_insert_sets(self, op, names) ==
    LET path == Str(lib_format_key(names[1]))
        fn   == IF op = "insert" THEN "set" ELSE op
    IN  CASE op \in {"insert", "replace", "set"} ->
                <<self.data_key, "=",
                  "json_" \o fn \o "(" \o self.data_key \o ",\"" \o path
                          \o "\",:value)">>
          [] op = "remove" ->
                <<self.data_key, "=",
                  "json_remove(" \o self.data_key \o ", '" \o path \o "')">>
          [] op = "patch" ->
                <<self.data_key, "=", "json_patch(" \o self.data_key \o ",:value)">>

\* a SET text whose replace calls json_set
SetValue_replace_sets(self, op, names) ==
    LET path == Str(lib_format_key(names[1]))
        fn   == IF op = "replace" THEN "set" ELSE op
    IN  CASE op \in {"insert", "replace", "set"} ->
                <<self.data_key, "=",
                  "json_" \o fn \o "(" \o self.data_key \o ",\"" \o path
                          \o "\",:value)">>
          [] op = "remove" ->
                <<self.data_key, "=",
                  "json_remove(" \o self.data_key \o ", '" \o path \o "')">>
          [] op = "patch" ->
                <<self.data_key, "=", "json_patch(" \o self.data_key \o ",:value)">>

\* the SET text of insert, patch, remove, replace and set
SetValue(self, op, names) ==
    LET path == Str(lib_format_key(names[1]))
    IN  CASE op \in {"insert", "replace", "set"} ->
                <<self.data_key, "=",
                  "json_" \o op \o "(" \o self.data_key \o ",\"" \o path
                          \o "\",:value)">>
          [] op = "remove" ->
                <<self.data_key, "=",
                  "json_remove(" \o self.data_key \o ", '" \o path \o "')">>
          [] op = "patch" ->
                <<self.data_key, "=", "json_patch(" \o self.data_key \o ",:value)">>

\* the statement of Iterator::insert, patch, remove, replace, set
\* ("UPDATE {table} SET {set_value} {clauses}") and of delete
WriteStatement(self, op, names) ==
    IF op = "delete" THEN Statement(self, Command(self, op, names))
    ELSE <<"UPDATE", self.table_key, "SET">> \o SetValue(self, op, names)
            \o make_clauses(self)

\* the call record of a write and the table afterwards
Written(op, names, value, stmt, r) ==
    [rows |-> r.rows,
     last |-> [NoLast EXCEPT
                 !.op = op, !.names = names, !.value = value, !.stmt = stmt,
                 !.res = IF r.ok THEN Ok(<<>>) ELSE Err(r.err)]]

\* a write that, when its statement fails, runs it once more without the
\* clauses that follow the command
ExecuteNamed_retrying(op, names, value, stmt, table) ==
    Written(op, names, value, stmt,
            IF ExecWrite(stmt, value, table).ok THEN ExecWrite(stmt, value, table)
            ELSE ExecWrite(SubSeq(stmt, 1, IF stmt[1] = "UPDATE" THEN 6 ELSE 3),
                           value, table))

\* prepare and execute_named of a write
ExecuteNamed(op, names, value, stmt, table) ==
    Written(op, names, value, stmt, ExecWrite(stmt, value, table))

\* Iterator::insert, patch, remove, replace, set, delete
Write(self, op, names, value, table) ==
    ExecuteNamed(op, names, value, WriteStatement(self, op, names), table)

---------------------------------------------------------------------------
(* Table and Operation: statements with a bound parameter                  *)

RECURSIVE BindParams(_, _)
\* the statement with its ? placeholders bound to integer parameters, in
\* order: the engine compares with the bound value
BindParams(toks, params) ==
    IF toks = <<>> THEN <<>>
    ELSE IF Head(toks) = "?" /\ params # <<>>
    THEN <<ToString(Head(params))>> \o BindParams(Tail(toks), Tail(params))
    ELSE <<Head(toks)>> \o BindParams(Tail(toks), params)

\* a CREATE TABLE that makes the table anew each time
ExecCreate_replacing(present, table) == <<>>

\* CREATE TABLE IF NOT EXISTS: a new, empty table unless there is one
ExecCreate(present, table) == IF present THEN table ELSE <<>>

\* Connection::table: the statement and the descriptor returned
CreateStatement(name) ==
    <<"CREATE TABLE IF NOT EXISTS", name, "(", "id INTEGER PRIMARY KEY", ",",
      "data TEXT NOT NULL", ")">>

Connection_table(name) == [id |-> "id", data |-> "data", name |-> name]

\* Table::insert: the statement
InsertStatement(table) ==
    <<"INSERT INTO", table.name, "(", table.data, ")", "VALUES", "(", "?", ")">>

\* a DELETE text without the comparison with the id
DeleteStatement_unfiltered(table) == <<"DELETE", "FROM", table.name>>

\* Table::delete: the statement
DeleteStatement(table) ==
    <<"DELETE", "FROM", table.name, "WHERE", table.id, "=", "?">>

\* Table::get
get(table, id) ==
    [id |-> id, data_key |-> table.data, id_key |-> table.id, table |-> table.name]

\* the statement of Operation::data, entry, id, field and remove
OperationStatement(self, op, names) ==
    CASE op = "data" ->
            <<"SELECT", self.data_key, "FROM", self.table,
              "WHERE", self.id_key, "=", "?">>
      [] op = "entry" ->
            <<"SELECT", self.id_key, ",", self.data_key, "FROM", self.table,
              "WHERE", self.id_key, "=", "?">>
      [] op = "id" ->
            <<"SELECT", self.id_key, "FROM", self.table,
              "WHERE", self.id_key, "=", "?">>
      [] op = "field" ->
            <<"SELECT",
              "json_extract(" \o self.data_key \o ", \""
                  \o Str(lib_format_key(names[1])) \o "\")",
              "FROM", self.table, "WHERE", self.id_key, "=", "?">>
      [] op = "remove" ->
            <<"UPDATE", self.table, "SET", self.data_key, "=",
              "json_remove(" \o self.data_key \o ", '"
                  \o Str(lib_format_key(names[1])) \o "')",
              "WHERE", self.id_key, "=", "?">>

\* the row closure of each read of Operation
OperationGet(op, t, cols) ==
    CASE op = "data"  -> Json_column_result(t, cols[1])
      [] op = "entry" -> Entry_from_row(t, cols)
      [] OTHER        -> column_result(t, cols[1])

\* Connection::query_row: the closure's result on the first row, or
\* QueryReturnedNoRows
query_row(op, t, q) ==
    IF ~q.ok THEN Failed(q.err)
    ELSE IF q.out = <<>> THEN Failed("QueryReturnedNoRows")
    ELSE OperationGet(op, t, q.out[1].cols)

\* an optional that turns every error into Ok(None)
optional_lenient(r) == IF r.ok THEN Ok(<<r.val>>) ELSE Ok(<<>>)

\* OptionalExtension::optional: QueryReturnedNoRows becomes Ok(None)
optional(r) ==
    IF r.ok THEN Ok(<<r.val>>)
    ELSE IF r.err = "QueryReturnedNoRows" THEN Ok(<<>>)
    ELSE Err(r.err)

\* the call record of a read of Operation
OperationRead(self, op, names, t, stmt, q) ==
    [NoLast EXCEPT
        !.op = "get." \o op, !.id = self.id, !.names = names, !.ty = t,
        !.stmt = stmt, !.out = q.out, !.res = optional(query_row(op, t, q))]

\* Operation::data, entry, id, field
Operation_read(self, op, names, t, table) ==
    OperationRead(self, op, names, t, OperationStatement(self, op, names),
                  ExecSelect(BindParams(OperationStatement(self, op, names),
                                        <<self.id>>), table))

\* the call record of a write with a bound id and the table afterwards
BoundWrite(op, id, names, stmt, r) ==
    [rows |-> r.rows,
     last |-> [NoLast EXCEPT
                 !.op = op, !.id = id, !.names = names, !.stmt = stmt,
                 !.res = IF r.ok THEN Ok(<<>>) ELSE Err(r.err)]]

\* a remove whose UPDATE runs without the comparison with the id
Operation_remove_everywhere(self, names, table) ==
    BoundWrite("get.remove", self.id, names,
               OperationStatement(self, "remove", names),
               ExecWrite(SubSeq(OperationStatement(self, "remove", names), 1, 6),
                         SNull, table))

\* Operation::remove
Operation_remove(self, names, table) ==
    BoundWrite("get.remove", self.id, names,
               OperationStatement(self, "remove", names),
               ExecWrite(BindParams(OperationStatement(self, "remove", names),
                                    <<self.id>>), SNull, table))

\* Table::delete
Table_delete(t, id, table) ==
    BoundWrite("Table::delete", id, <<>>, DeleteStatement(t),
               ExecWrite(BindParams(DeleteStatement(t), <<id>>), SNull, table))

---------------------------------------------------------------------------
(* Specification of the query builder: rows are inserted into the table,   *)
(* a builder is made by Table::iter and changed by filter, sort, skip and  *)
(* take, and terminal operations are called on it.                         *)

\* the documents inserted: {"age": a, "b": 1} with age absent, 1 or 2
Docs ==
    {JObj([n \in FieldNames |-> IF n = Str(AGE) THEN a ELSE JNum(1)]) :
        a \in {Absent, JNum(1), JNum(2)}}

\* the filters and sorts given to the builder
Filters == {Unit, gte(field(AGE), 2), eq(field(B), 1)}
Sorts   == {Unit, ascending(field(AGE)),
            And(descending(field(AGE)), descending(column("id")))}

\* the reads called: operation, field names, requested type
ReadCalls ==
    {[op |-> "data", names |-> <<>>, ty |-> TValue],
     [op |-> "data", names |-> <<>>, ty |-> TPerson],
     [op |-> "entry", names |-> <<>>, ty |-> TPerson],
     [op |-> "id", names |-> <<>>, ty |-> TI64],
     [op |-> "field", names |-> <<AGE>>, ty |-> TU8],
     [op |-> "field", names |-> <<AGE>>, ty |-> TOpt(TU8)],
     [op |-> "fields", names |-> <<AGE>>, ty |-> TU8],
     [op |-> "fields", names |-> <<AGE, B>>, ty |-> TTuple(<<TU8, TU8>>)],
     [op |-> "fields", names |-> <<AGE, B>>, ty |-> TTuple(<<TOpt(TU8), TU8>>)]}

\* the writes called: operation, field name, the parameter :value bound
\* (ToSql of an integer for set, insert, replace; of Json<T> for patch)
WriteCalls ==
    {[op |-> "set", names |-> <<AGE>>, value |-> SInt(2)],
     [op |-> "insert", names |-> <<AGE>>, value |-> SInt(1)],
     [op |-> "replace", names |-> <<AGE>>, value |-> SInt(2)],
     [op |-> "remove", names |-> <<AGE>>, value |-> SNull],
     [op |-> "patch", names |-> <<>>,
      value |-> Json_to_sql(JObj([n \in FieldNames |->
                                   IF n = Str(AGE) THEN JNum(1) ELSE Absent]))],
     [op |-> "delete", names |-> <<>>, value |-> SNull]}

\* the state after Connection::table("people") on a new database
Init ==
    /\ rows = <<>>
    /\ it = iter(Table)
    /\ last = NoLast
    /\ call = NoCall
    /\ created = TRUE

\* Table::insert (the rowids of the model stay within 1 .. MaxRows)
TableInsert ==
    /\ created
    /\ MaxRowid(rows) < MaxRows
    /\ \E d \in Docs :
          /\ rows' = ExecInsert(Json_to_sql(d), rows)
          /\ last' = [NoLast EXCEPT !.op = "Table::insert",
                                    !.value = Json_to_sql(d),
                                    !.stmt = InsertStatement(Table)]
    /\ UNCHANGED <<it, call, created>>

\* Table::iter
Iter ==
    /\ created
    /\ it' = iter(Table)
    /\ last' = [NoLast EXCEPT !.op = "iter"]
    /\ UNCHANGED <<rows, call, created>>

\* Iterator::filter
Filter ==
    /\ created
    /\ \E f \in Filters :
          /\ it' = filter(it, f)
          /\ last' = [NoLast EXCEPT !.op = "filter", !.old = it.where_, !.arg = f]
    /\ UNCHANGED <<rows, call, created>>

\* Iterator::sort
Sort ==
    /\ created
    /\ \E k \in Sorts :
          /\ it' = sort(it, k)
          /\ last' = [NoLast EXCEPT !.op = "sort", !.arg = k]
    /\ UNCHANGED <<rows, call, created>>

\* Iterator::skip
Skip ==
    /\ created
    /\ \E n \in 0 .. MaxSkip :
          /\ it' = skip(it, n)
          /\ last' = [NoLast EXCEPT !.op = "skip", !.n = n]
    /\ UNCHANGED <<rows, call, created>>

\* Iterator::take
Take ==
    /\ created
    /\ \E n \in 0 .. MaxTake :
          /\ it' = take(it, n)
          /\ last' = [NoLast EXCEPT !.op = "take", !.n = n]
    /\ UNCHANGED <<rows, call, created>>

\* a terminal read of the builder
ReadOp(c) ==
    /\ created
    /\ last' = Read(it, c.op, c.names, c.ty, rows)
    /\ UNCHANGED <<rows, it, call, created>>

\* a terminal write of the builder
WriteOp(c) ==
    /\ created
    /\ \E w \in {Write(it, c.op, c.names, c.value, rows)} :
          rows' = w.rows /\ last' = w.last
    /\ UNCHANGED <<it, call, created>>

\* Iterator::data, entry, id, field, fields
Data   == \E c \in ReadCalls : c.op = "data" /\ ReadOp(c)
Entry  == \E c \in ReadCalls : c.op = "entry" /\ ReadOp(c)
Id     == \E c \in ReadCalls : c.op = "id" /\ ReadOp(c)
Field  == \E c \in ReadCalls : c.op = "field" /\ ReadOp(c)
Fields == \E c \in ReadCalls : c.op = "fields" /\ ReadOp(c)

\* Iterator::insert, patch, remove, replace, set, delete
Insert  == \E c \in WriteCalls : c.op = "insert" /\ WriteOp(c)
Patch   == \E c \in WriteCalls : c.op = "patch" /\ WriteOp(c)
Remove  == \E c \in WriteCalls : c.op = "remove" /\ WriteOp(c)
Replace == \E c \in WriteCalls : c.op = "replace" /\ WriteOp(c)
Set     == \E c \in WriteCalls : c.op = "set" /\ WriteOp(c)
Delete  == \E c \in WriteCalls : c.op = "delete" /\ WriteOp(c)

Next ==
    \/ TableInsert \/ Iter \/ Filter \/ Sort \/ Skip \/ Take
    \/ Data \/ Entry \/ Id \/ Field \/ Fields
    \/ Insert \/ Patch \/ Remove \/ Replace \/ Set \/ Delete

Spec == Init /\ [][Next]_vars

---------------------------------------------------------------------------
(* Properties of the statements and results of the query builder           *)

\* the place of the first lexeme x of a statement, 0 when it has none
Pos(stmt, x) ==
    IF \E i \in 1 .. Len(stmt) : stmt[i] = x
    THEN CHOOSE i \in 1 .. Len(stmt) :
            stmt[i] = x /\ \A j \in 1 .. i - 1 : stmt[j] # x
    ELSE 0

\* clause a comes before clause b wherever a statement has both
Before(stmt, a, b) ==
    (Pos(stmt, a) > 0 /\ Pos(stmt, b) > 0) => Pos(stmt, a) < Pos(stmt, b)

\* the statement shape the specification gives for a read of the builder:
\* SELECT <projection> FROM <table> [WHERE ..] [ORDER BY ..] [LIMIT n OFFSET m]
ShapeOfRead(self, command, windowed) ==
    LET w == where_(self.where_, self.data_key)
        o == order_by(self.order_by, self.data_key)
    IN  command \o <<"FROM", self.table_key>>
          \o (IF w = <<>> THEN <<>> ELSE <<"WHERE">> \o w[1])
          \o (IF o = <<>> THEN <<>> ELSE FoldOrder(o, TRUE, <<"ORDER BY">>))
          \o (IF windowed /\ (self.limit # <<>> \/ self.offset # <<>>)
              THEN <<"LIMIT", ToString(IF self.limit = <<>> THEN -1 ELSE self.limit[1]),
                     "OFFSET", ToString(IF self.offset = <<>> THEN 0 ELSE self.offset[1])>>
              ELSE <<>>)

\* the rows of the builder's query in its order, before skip and take
Ordered(self, command) == ExecSelect(ShapeOfRead(self, command, FALSE), rows).out

\* the rows of the builder's query, skip and take applied
Matching(self, command) == ExecSelect(ShapeOfRead(self, command, TRUE), rows).out

\* C1: the statement of every terminal operation has its clauses in the
\* order WHERE, ORDER BY, LIMIT/OFFSET; with a sort and a skip or take both
\* set, ORDER BY comes before LIMIT.
C1_ClauseOrder ==
    last.op \in Reads \cup Writes =>
        /\ Before(last.stmt, "WHERE", "ORDER BY")
        /\ Before(last.stmt, "WHERE", "LIMIT")
        /\ Before(last.stmt, "ORDER BY", "LIMIT")
        /\ Before(last.stmt, "LIMIT", "OFFSET")

\* C2: with take(n) and skip(m) both set, a terminal read returns exactly
\* the rows at positions [m, m+n) of the query's order: none for take(0),
\* none for a skip at or beyond the number of matching rows.
C2_Pagination ==
    (last.op = "id" /\ it.limit # <<>> /\ it.offset # <<>>) =>
        LET all == Ordered(it, <<"SELECT", it.id_key>>)
            m   == it.offset[1]
            n   == it.limit[1]
            to  == IF m + n > Len(all) THEN Len(all) ELSE m + n
        IN  /\ last.res.ok
            /\ last.res.vals = [i \in 1 .. (IF to > m THEN to - m ELSE 0) |-> all[m + i].id]
            /\ (n = 0 \/ m >= Len(all)) => last.res.vals = <<>>

\* C3: the statement of a write or delete carries only the WHERE clause of
\* the filter (no clause without a filter), whatever skip, take or sort is
\* set on the builder.
C3_WritesCarryOnlyWhere ==
    last.op \in Writes =>
        /\ last.stmt = WriteStatement(filter(iter(Table), it.where_),
                                      last.op, last.names)
        /\ Pos(last.stmt, "LIMIT") = 0
        /\ Pos(last.stmt, "ORDER BY") = 0

\* C4: a terminal read returns an error whenever a row the engine returned
\* fails to convert to the requested type; an Ok list has one element for
\* every returned row.
C4_NoSwallowedError ==
    last.op \in Reads =>
        /\ (\E i \in 1 .. Len(last.out) :
                ~RowGet(last.op, last.ty, last.out[i].cols).ok) => ~last.res.ok
        /\ last.res.ok => Len(last.res.vals) = Len(last.out)

\* C5: field and fields return Ok with one element for every matching row
\* whose extracted value converts to the requested type, in the rows' order;
\* rows whose value does not convert (an absent field read as an integer)
\* are left out and the call still succeeds.
C5_FieldLeavesOutAbsent ==
    last.op \in {"field", "fields"} =>
        LET rs   == Matching(it, Command(it, last.op, last.names))
            kept == SelectSeq(rs, LAMBDA r : RowGet(last.op, last.ty, r.cols).ok)
        IN  /\ last.res.ok
            /\ last.res.vals =
                 [i \in 1 .. Len(kept) |-> RowGet(last.op, last.ty, kept[i].cols).val]

\* the rows a filter of Filters matches, by the documents themselves
MatchesDoc(f, row) ==
    LET m == row.data.json.m
    IN  CASE f = Unit -> TRUE
          [] f = gte(field(AGE), 2) -> m[Str(AGE)].j = "num" /\ m[Str(AGE)].n >= 2
          [] f = eq(field(B), 1) -> m[Str(B)] = JNum(1)

\* the lexemes of a statement's WHERE clause, up to ORDER BY, LIMIT or the end
WhereOf(stmt) ==
    LET w    == Pos(stmt, "WHERE")
        ends == {i \in w + 1 .. Len(stmt) : stmt[i] \in {"ORDER BY", "LIMIT"}}
        e    == IF ends = {} THEN Len(stmt) + 1
                ELSE CHOOSE i \in ends : \A j \in ends : i <= j
    IN  IF w = 0 THEN <<>> ELSE SubSeq(stmt, w + 1, e - 1)

\* C9: filter(F) replaces the filter: right after filter(B) on a builder
\* whose filter was A, the builder's filter is B, the WHERE clause of every
\* terminal statement is the rendering of B alone, and a read returns
\* exactly the rows matching B.
C9_FilterReplaces ==
    last.op = "filter" =>
        /\ it.where_ = last.arg
        /\ \A c \in ReadCalls :
              WhereOf(Read(it, c.op, c.names, c.ty, rows).stmt)
                 = unwrap_or_default(where_(last.arg, it.data_key))
        /\ \A c \in WriteCalls :
              WhereOf(WriteStatement(it, c.op, c.names))
                 = unwrap_or_default(where_(last.arg, it.data_key))
        /\ LET r == Read(it, "id", <<>>, TI64, rows)
           IN  (r.res.ok /\ it.limit = <<>> /\ it.offset = <<>>) =>
                  {r.res.vals[i] : i \in 1 .. Len(r.res.vals)}
                     = {rows[i].id : i \in {j \in 1 .. Len(rows) :
                                              MatchesDoc(last.arg, rows[j])}}

\* after filter(A).filter(B) with a row that matches B and not A
C9_Witness ==
    /\ last.op = "filter"
    /\ last.old = gte(field(AGE), 2)
    /\ last.arg = eq(field(B), 1)
    /\ it.limit = <<>> /\ it.offset = <<>>
    /\ \E i \in 1 .. Len(rows) :
          MatchesDoc(last.arg, rows[i]) /\ ~MatchesDoc(last.old, rows[i])

---------------------------------------------------------------------------
(* Specification of sort sequences: the caller grows a sort sequence with  *)
(* and(), on either side, from single keys and the empty sort, and hands   *)
(* it to the builder.                                                      *)

\* the leaves of a sort sequence: () and single keys
SortLeaves ==
    {Unit, ascending(field(AGE)), descending(field(AGE)),
     descending(field(B)), ascending(column("id"))}

RECURSIVE LeafCount(_)
\* the number of leaves of a sort sequence
LeafCount(s) ==
    IF s.t = "and" THEN LeafCount(s.first) + LeafCount(s.second) ELSE 1

InitSort == Init

\* Iterator::sort with a single key or ()
SortLeaf ==
    /\ \E l \in SortLeaves :
          /\ it' = sort(it, l)
          /\ last' = [NoLast EXCEPT !.op = "sort", !.arg = l]
    /\ UNCHANGED <<rows, call, created>>

\* Iterator::sort with the sequence so far extended by Sort::and, as its
\* first or as its second operand
SortAnd ==
    /\ LeafCount(it.order_by) < MaxSortLeaves
    /\ \E l \in SortLeaves :
          \E s \in {And(it.order_by, l), And(l, it.order_by)} :
             /\ it' = sort(it, s)
             /\ last' = [NoLast EXCEPT !.op = "sort", !.arg = s]
    /\ UNCHANGED <<rows, call, created>>

NextSort == SortLeaf \/ SortAnd \/ Id

SpecSort == InitSort /\ [][NextSort]_vars

RECURSIVE LeafKeys(_)
\* the keys of a sort sequence read left to right, () giving none
LeafKeys(s) ==
    CASE s.t = "unit" -> <<>>
      [] s.t = "and"  -> LeafKeys(s.first) \o LeafKeys(s.second)
      [] OTHER        -> <<s>>

\* the lexemes of a statement's ORDER BY clause
OrderOf(stmt) ==
    LET o == Pos(stmt, "ORDER BY")
    IN  IF o = 0 THEN <<>> ELSE SubSeq(stmt, o, Len(stmt))

\* the ORDER BY clause listing the given keys in their order, separated by
\* commas: the 2i-th lexeme is the i-th key, the lexemes between are commas
ListsKeys(clause, keys) ==
    IF keys = <<>> THEN clause = <<>>
    ELSE /\ Len(clause) = 2 * Len(keys)
         /\ clause[1] = "ORDER BY"
         /\ \A i \in 1 .. Len(keys) :
               /\ clause[2 * i] = key(keys[i].k, it.data_key)
                                     \o (IF keys[i].t = "asc" THEN " ASC" ELSE " DESC")
               /\ i > 1 => clause[2 * i - 1] = ","

\* C10: for any nesting of and() the ORDER BY clause lists the leaf keys
\* comma-separated in left-to-right order; (a and b) and c renders the same
\* clause as a and (b and c); () contributes no key and a sequence without
\* keys gives no ORDER BY clause.
C10_SortKeepsOrder ==
    last.op = "sort" =>
        LET s      == last.arg
            clause == OrderOf(Statement(it, <<"SELECT", it.id_key>>))
        IN  /\ it.order_by = s
            /\ ListsKeys(clause, LeafKeys(s))
            /\ (s.t = "and" /\ s.first.t = "and") =>
                  clause = OrderOf(Statement(
                             sort(it, And(s.first.first, And(s.first.second, s.second))),
                             <<"SELECT", it.id_key>>))
            /\ (LeafKeys(s) = <<>>) = (Pos(make_clauses(it), "ORDER BY") = 0)

\* after sort((a and b) and c) with three different keys
C10_Witness ==
    /\ last.op = "sort"
    /\ last.arg = And(And(descending(field(AGE)), ascending(column("id"))),
                      descending(field(B)))
    /\ OrderOf(Statement(it, <<"SELECT", it.id_key>>)) =
          <<"ORDER BY", "json_extract(data, \"$.age\") DESC", ",", "id ASC", ",",
            "json_extract(data, \"$.b\") DESC">>

---------------------------------------------------------------------------
(* Specification of the table: the table is made by Connection::table,     *)
(* rows are inserted, read and changed one at a time through Table and     *)
(* Operation, and many at a time through the builder.                      *)

\* the ids given to Table::get and Table::delete
Ids == 1 .. MaxRows

\* the reads of Operation called: operation, field names, requested type
GetCalls ==
    {[op |-> "data", names |-> <<>>, ty |-> TValue],
     [op |-> "data", names |-> <<>>, ty |-> TPerson],
     [op |-> "entry", names |-> <<>>, ty |-> TValue],
     [op |-> "id", names |-> <<>>, ty |-> TI64],
     [op |-> "field", names |-> <<AGE>>, ty |-> TU8],
     [op |-> "field", names |-> <<AGE>>, ty |-> TOpt(TU8)]}

\* a database without the table
InitTable ==
    /\ rows = <<>>
    /\ it = iter(Table)
    /\ last = NoLast
    /\ call = NoCall
    /\ created = FALSE

\* Connection::table("people")
ConnectionTable ==
    /\ rows' = ExecCreate(created, rows)
    /\ created' = TRUE
    /\ last' = [NoLast EXCEPT !.op = "Connection::table",
                              !.stmt = CreateStatement(Table.name),
                              !.arg = Connection_table(Table.name)]
    /\ UNCHANGED <<it, call>>

\* Table::get
TableGet ==
    /\ created
    /\ \E id \in Ids :
          last' = [NoLast EXCEPT !.op = "Table::get", !.id = id,
                                 !.arg = get(Table, id)]
    /\ UNCHANGED <<rows, it, call, created>>

\* Table::delete
TableDelete ==
    /\ created
    /\ \E id \in Ids : \E w \in {Table_delete(Table, id, rows)} :
          rows' = w.rows /\ last' = w.last
    /\ UNCHANGED <<it, call, created>>

\* a read of Operation
GetOp(c) ==
    /\ created
    /\ \E id \in Ids :
          last' = Operation_read(get(Table, id), c.op, c.names, c.ty, rows)
    /\ UNCHANGED <<rows, it, call, created>>

\* Operation::data, entry, id, field
GetData  == \E c \in GetCalls : c.op = "data" /\ GetOp(c)
GetEntry == \E c \in GetCalls : c.op = "entry" /\ GetOp(c)
GetId    == \E c \in GetCalls : c.op = "id" /\ GetOp(c)
GetField == \E c \in GetCalls : c.op = "field" /\ GetOp(c)

\* Operation::remove
GetRemove ==
    /\ created
    /\ \E id \in Ids : \E w \in {Operation_remove(get(Table, id), <<AGE>>, rows)} :
          rows' = w.rows /\ last' = w.last
    /\ UNCHANGED <<it, call, created>>

NextTable ==
    \/ ConnectionTable \/ TableInsert \/ TableGet \/ TableDelete
    \/ GetData \/ GetEntry \/ GetId \/ GetField \/ GetRemove
    \/ Iter \/ Filter
    \/ Insert \/ Patch \/ Remove \/ Replace \/ Set \/ Delete

SpecTable == InitTable /\ [][NextTable]_vars

\* every operation of Connection, Table, Operation and Iterator
NextCalls ==
    \/ ConnectionTable \/ TableInsert \/ TableGet \/ TableDelete
    \/ GetData \/ GetEntry \/ GetId \/ GetField \/ GetRemove
    \/ Iter \/ Filter \/ Sort \/ Skip \/ Take
    \/ Data \/ Entry \/ Id \/ Field \/ Fields
    \/ Insert \/ Patch \/ Remove \/ Replace \/ Set \/ Delete

SpecCalls == InitTable /\ [][NextCalls]_vars

---------------------------------------------------------------------------
(* Properties of the writes through the builder, Table and Operation       *)

\* the member age of a row's document, Absent when it has none
AgeOf(row) == row.data.json.m[Str(AGE)]

\* the row with its member age given the value v
WithAge(row, v) == [row EXCEPT !.data.json.m[Str(AGE)] = v]

\* the primary keys of a table, in row order
IdsOf(table) == [i \in 1 .. Len(table) |-> table[i].id]

\* C11: after Iterator::set(f, v) succeeds every row the filter matches has
\* f = v, whether it had f before or not, and every other row is unchanged
C11_SetCreatesOrOverwrites ==
    [][(last'.op = "set" /\ last'.res.ok) =>
          /\ Len(rows') = Len(rows)
          /\ \A i \in 1 .. Len(rows) :
                rows'[i] = IF MatchesDoc(it.where_, rows[i])
                           THEN WithAge(rows[i], JsonOf(last'.value))
                           ELSE rows[i]]_vars

\* a successful set behind a filter that matched one row and not another
C11_Witness ==
    /\ last.op = "set" /\ last.res.ok
    /\ it.where_ = gte(field(AGE), 2)
    /\ \E i, j \in 1 .. Len(rows) :
          MatchesDoc(it.where_, rows[i]) /\ ~MatchesDoc(it.where_, rows[j])

\* C12: after Iterator::insert(f, v) succeeds every matching row that lacked
\* f has f = v and every matching row that had f keeps its value; rows the
\* filter does not match are unchanged
C12_InsertCreatesOnly ==
    [][(last'.op = "insert" /\ last'.res.ok) =>
          /\ Len(rows') = Len(rows)
          /\ \A i \in 1 .. Len(rows) :
                rows'[i] = IF MatchesDoc(it.where_, rows[i]) /\ AgeOf(rows[i]) = Absent
                           THEN WithAge(rows[i], JsonOf(last'.value))
                           ELSE rows[i]]_vars

\* a successful insert over a row that has age, with another value than the
\* one inserted, and a row that has it from the insert
C12_Witness ==
    /\ last.op = "insert" /\ last.res.ok
    /\ it.where_ = Unit
    /\ \E i, j \in 1 .. Len(rows) :
          /\ AgeOf(rows[i]) = JNum(2)
          /\ AgeOf(rows[j]) = JsonOf(last.value)

C14_FieldWritesKeepRows ==
    [][/\ last'.op \in {"set", "insert", "replace", "patch", "remove", "get.remove"}
          => IdsOf(rows') = IdsOf(rows)
       /\ (last'.op = "remove" /\ last'.res.ok)
          => \A i \in 1 .. Len(rows) :
                rows'[i] = IF MatchesDoc(it.where_, rows[i])
                           THEN WithAge(rows[i], Absent) ELSE rows[i]
       /\ (last'.op = "get.remove" /\ last'.res.ok)
          => \A i \in 1 .. Len(rows) :
                rows'[i] = IF rows[i].id = last'.id
                           THEN WithAge(rows[i], Absent) ELSE rows[i]]_vars

\* a remove through the builder that selected one of two rows
C14_Witness ==
    /\ last.op = "remove" /\ last.res.ok
    /\ it.where_ = gte(field(AGE), 2)
    /\ Len(rows) = 2
    /\ AgeOf(rows[1]) = Absent
    /\ AgeOf(rows[2]) = JNum(1)

\* C15: Iterator::delete removes exactly the rows the filter matches and
\* leaves every other row unchanged; without a filter it removes every row
C15_DeleteRemovesMatching ==
    [][last'.op = "delete" =>
          rows' = SelectSeq(rows, LAMBDA r : ~MatchesDoc(it.where_, r))]_vars

\* C16: Table::delete(id) returns Ok and removes the row with that primary
\* key, if there is one, and no other row; Operation::id of get(id) then
\* returns None
C16_TableDeleteRemovesOne ==
    [][last'.op = "Table::delete" =>
          /\ last'.res = Ok(<<>>)
          /\ rows' = SelectSeq(rows, LAMBDA r : r.id # last'.id)
          /\ Operation_read(get(Table, last'.id), "id", <<>>, TI64, rows').res
                = Ok(<<>>)]_vars

\* a delete of id 1 that left the row with id 2
C16_Witness ==
    /\ last.op = "Table::delete" /\ last.res.ok /\ last.id = 1
    /\ IdsOf(rows) = <<2>>

\* C17: Table::insert adds one row that holds the encoded value under an id
\* no row had and leaves the rows there were unchanged, also when a row
\* holds the same document already
C17_TableInsertAppends ==
    [][last'.op = "Table::insert" =>
          /\ Len(rows') = Len(rows) + 1
          /\ SubSeq(rows', 1, Len(rows)) = rows
          /\ rows'[Len(rows')].data = last'.value
          /\ \A i \in 1 .. Len(rows) : rows[i].id # rows'[Len(rows')].id]_vars

\* an insert of a document the table held already: two rows hold it
C17_Witness ==
    /\ last.op = "Table::insert"
    /\ Len(rows) = 2
    /\ rows[1].data = last.value /\ rows[2].data = last.value
    /\ rows[1].id # rows[2].id

\* C18: Connection::table makes the table when there is none, leaves the
\* rows of a table that is there unchanged, succeeds, and returns a Table
\* with id column "id" and document column "data"
C18_ConnectionTableIdempotent ==
    [][last'.op = "Connection::table" =>
          /\ created'
          /\ rows' = IF created THEN rows ELSE <<>>
          /\ last'.res.ok
          /\ last'.arg.id = "id" /\ last'.arg.data = "data"]_vars

\* a later Connection::table on a table that holds rows
C18_Witness ==
    /\ last.op = "Connection::table" /\ created
    /\ rows # <<>>

\* the operations that build a value and the terminal operations, by the
\* name in the call record
BuilderSteps == {"iter", "filter", "sort", "skip", "take", "Table::get"}
TerminalReads ==
    {"data", "entry", "id", "field", "fields",
     "get.data", "get.entry", "get.id", "get.field"}
TerminalWrites ==
    {"insert", "patch", "remove", "replace", "set", "delete",
     "get.remove", "Table::delete"}

\* the outcome the engine gives the statement of the call record, run once
\* on the table
OnceWritten(l, table) == ExecWrite(BindParams(l.stmt, <<l.id>>), l.value, table)
OnceRead(l, table)    == ExecSelect(BindParams(l.stmt, <<l.id>>), table)

\* C19: a terminal operation issues one statement, and the table afterwards
\* and the error returned are those of that statement run once; iter, get,
\* filter, sort, skip and take issue no statement and leave the table alone
C19_OneStatementPerTerminal ==
    [][/\ last'.op \in BuilderSteps => (last'.stmt = <<>> /\ rows' = rows)
       /\ last'.op \in {"Table::insert", "Connection::table"} => last'.stmt # <<>>
       /\ last'.op \in TerminalWrites =>
             /\ last'.stmt # <<>>
             /\ rows' = OnceWritten(last', rows).rows
             /\ last'.res.ok = OnceWritten(last', rows).ok
             /\ last'.res.err = OnceWritten(last', rows).err
       /\ last'.op \in TerminalReads =>
             /\ last'.stmt # <<>>
             /\ rows' = rows
             /\ last'.out = OnceRead(last', rows).out
             /\ ~OnceRead(last', rows).ok
                   => last'.res = Err(OnceRead(last', rows).err)]_vars

\* a write whose statement the engine rejected: the error is returned and
\* the table holds its rows
C19_Witness ==
    /\ last.op \in TerminalWrites /\ ~last.res.ok
    /\ last.res.err = "statement"
    /\ rows # <<>>

\* the rows of the table with the id of the call record
RowsWithId == SelectSeq(rows, LAMBDA r : r.id = last.id)

\* the reads of Operation, by the name in the call record
GetReads == {"get.data", "get.entry", "get.id", "get.field"}

\* the conversion of the selected column of row r to the requested type
SelectedOf(l, r) ==
    CASE l.op = "get.id"    -> Converted(r.id)
      [] l.op = "get.entry" -> Converted([id |-> r.id, data |-> r.data.json])
      [] l.op = "get.data"  -> from_value(l.ty, r.data.json)
      [] l.op = "get.field" -> column_result(l.ty, SqlOf(AgeOf(r)))

\* C20 as stated: a read of Operation returns Ok(None) when no row has the
\* id and Ok(Some(value)) when a row has it, also for field on a row whose
\* document lacks the field
C20_ZeroOrOne ==
    last.op \in GetReads =>
       IF RowsWithId = <<>> THEN last.res = Ok(<<>>)
       ELSE last.res.ok /\ Len(last.res.vals) = 1

\* C20: a read of Operation returns Ok(None) when no row has the id; when a
\* row has it the read returns Ok(Some(v)) where the selected column
\* converts to the requested type, v being the converted value, and the Err
\* of the conversion where it does not; field on a row without the member is
\* Ok(Some(None)) for an Option and Err(InvalidType) for u8
C20_ZeroOrOneOrTypeError ==
    last.op \in GetReads =>
       IF RowsWithId = <<>> THEN last.res = Ok(<<>>)
       ELSE /\ Len(RowsWithId) = 1
            /\ last.res = IF SelectedOf(last, RowsWithId[1]).ok
                          THEN Ok(<<SelectedOf(last, RowsWithId[1]).val>>)
                          ELSE Err(SelectedOf(last, RowsWithId[1]).err)
            /\ (last.op = "get.field" /\ AgeOf(RowsWithId[1]) = Absent) =>
                  last.res = IF last.ty = TU8 THEN Err("InvalidType")
                             ELSE Ok(<< <<>> >>)

\* field::<u8> read of a row whose document has no age
C20_Witness ==
    /\ last.op = "get.field" /\ last.ty = TU8
    /\ RowsWithId # <<>>
    /\ AgeOf(RowsWithId[1]) = Absent
    /\ ~last.res.ok

\* C21: Operation::remove(f) returns Ok, takes the member f out of the
\* document of the row with the accessor's id and leaves every other row as
\* it was; with no such row the table is unchanged
C21_OperationRemoveOneRow ==
    [][last'.op = "get.remove" =>
          /\ last'.res = Ok(<<>>)
          /\ Len(rows') = Len(rows)
          /\ \A i \in 1 .. Len(rows) :
                IF rows[i].id = last'.id
                THEN /\ AgeOf(rows'[i]) = Absent
                     /\ rows'[i] = WithAge(rows[i], Absent)
                ELSE rows'[i] = rows[i]
          /\ (\A i \in 1 .. Len(rows) : rows[i].id # last'.id) => rows' = rows]_vars

\* a remove on id 1 of two rows: the row with id 2 still has its age
C21_Witness ==
    /\ last.op = "get.remove" /\ last.res.ok /\ last.id = 1
    /\ IdsOf(rows) = <<1, 2>>
    /\ AgeOf(rows[1]) = Absent
    /\ AgeOf(rows[2]) = JNum(2)

\* a remove on an id no row has, in a table that holds a row with age
C21_WitnessNoRow ==
    /\ last.op = "get.remove" /\ last.res.ok /\ last.id = 2
    /\ IdsOf(rows) = <<1>>
    /\ AgeOf(rows[1]) = JNum(2)

\* C23: Iterator::fields under a filter and without sort, skip and take
\* returns for every matching row, in row order, the values of the names in
\* the order given, for one name as for several: with the filter age >= 2
\* fields(["age"]) returns the ages of the matching rows
C23_FieldsOfMatchingRows ==
    (/\ last.op = "fields"
     /\ last.ty \in {TU8, TTuple(<<TU8, TU8>>)}
     /\ it.where_ = gte(field(AGE), 2)
     /\ it.order_by = Unit /\ it.limit = <<>> /\ it.offset = <<>>)
    => LET m == SelectSeq(rows, LAMBDA r : MatchesDoc(it.where_, r))
       IN  last.res = Ok([i \in 1 .. Len(m) |->
                            IF Len(last.names) = 1 THEN AgeOf(m[i]).n
                            ELSE [k \in 1 .. Len(last.names) |->
                                    m[i].data.json.m[Str(last.names[k])].n]])

\* the builder alone: its methods and a read of the ids
NextBuilder == Iter \/ Filter \/ Sort \/ Skip \/ Take \/ Id

SpecBuilder == Init /\ [][NextBuilder]_vars

\* C27: filter changes only the filter of the builder, sort only the sort,
\* skip only the offset and take only the limit; the other components and
\* the table, id and data names are carried over, so a window set before
\* filter() or sort() is still set after it
C27_BuilderFrame ==
    [][/\ last'.op = "filter" => it' = [it EXCEPT !.where_ = last'.arg]
       /\ last'.op = "sort" => it' = [it EXCEPT !.order_by = last'.arg]
       /\ last'.op = "skip" => it' = [it EXCEPT !.offset = <<last'.n>>]
       /\ last'.op = "take" => it' = [it EXCEPT !.limit = <<last'.n>>]]_vars

\* a filter() on a builder with a sort, a skip and a take: all three kept
C27_Witness ==
    /\ last.op = "filter" /\ it.where_ = gte(field(AGE), 2)
    /\ it.limit = <<1>> /\ it.offset = <<1>>
    /\ it.order_by # Unit

\* the text LIMIT n OFFSET m of a statement, <<>> when it has no LIMIT
WindowOf(stmt) ==
    IF Pos(stmt, "LIMIT") = 0 THEN <<>>
    ELSE SubSeq(stmt, Pos(stmt, "LIMIT"), Pos(stmt, "LIMIT") + 3)

\* the ids of the rows from position from + 1 to position to
IdsBetween(all, from, to) ==
    [i \in 1 .. (IF to > from THEN to - from ELSE 0) |-> all[from + i].id]

\* the smaller of two numbers
Min(a, b) == IF a < b THEN a ELSE b

\* C29: a read after skip(m) without take has LIMIT -1 OFFSET m and returns
\* the matching rows from position m on; after take(n) without skip it has
\* LIMIT n OFFSET 0 and returns the first n; with neither it has no LIMIT
\* and no OFFSET and returns every matching row
C29_OpenWindow ==
    last.op = "id" =>
       LET all == Ordered(it, <<"SELECT", it.id_key>>)
       IN  /\ (it.offset # <<>> /\ it.limit = <<>>) =>
                 /\ WindowOf(last.stmt)
                       = <<"LIMIT", "-1", "OFFSET", ToString(it.offset[1])>>
                 /\ last.res = Ok(IdsBetween(all, Min(it.offset[1], Len(all)),
                                             Len(all)))
           /\ (it.limit # <<>> /\ it.offset = <<>>) =>
                 /\ WindowOf(last.stmt)
                       = <<"LIMIT", ToString(it.limit[1]), "OFFSET", "0">>
                 /\ last.res = Ok(IdsBetween(all, 0, Min(it.limit[1], Len(all))))
           /\ (it.limit = <<>> /\ it.offset = <<>>) =>
                 /\ Pos(last.stmt, "LIMIT") = 0 /\ Pos(last.stmt, "OFFSET") = 0
                 /\ last.res = Ok(IdsBetween(all, 0, Len(all)))

\* C30: skip and take overwrite: after skip the offset is its argument and
\* the limit is as before, after take the limit is its argument and the
\* offset as before, a second skip replaces the offset of the first, and
\* take(n).skip(m) gives the statement of skip(m).take(n)
C30_WindowOverwrites ==
    [][/\ last'.op = "skip" =>
             (it'.offset = <<last'.n>> /\ it'.limit = it.limit)
       /\ last'.op = "take" =>
             (it'.limit = <<last'.n>> /\ it'.offset = it.offset)
       /\ last'.op \in {"skip", "take"} =>
             \A m \in 0 .. MaxSkip, n \in 0 .. MaxTake :
                /\ skip(it', m).offset = <<m>>
                /\ take(it', n).limit = <<n>>
                /\ Statement(skip(take(it', n), m), <<"SELECT", it.id_key>>)
                      = Statement(take(skip(it', m), n), <<"SELECT", it.id_key>>)]_vars

\* a skip(0) on a builder with a take: the offset is 0 and the limit kept
C30_Witness ==
    /\ last.op = "skip" /\ last.n = 0
    /\ it.offset = <<0>> /\ it.limit = <<MaxTake>>

---------------------------------------------------------------------------
(* Specification of the filters: documents with a number, a null or no     *)
(* member age are inserted, a filter on age is set and the ids are read    *)

\* the values compared with
CmpValues == 1 .. 3

\* the documents inserted: age is a number, null or absent
FilterDocs ==
    {JObj([n \in FieldNames |-> IF n = Str(AGE) THEN a ELSE JNum(1)]) :
        a \in {Absent, JNull} \cup {JNum(v) : v \in CmpValues}}

\* the filters given to the builder
KeyFilters ==
    {eq(field(AGE), 2), Not(eq(field(AGE), 2)), neq(field(AGE), 2),
     gt(field(AGE), 2), gte(field(AGE), 2), lt(field(AGE), 2), lte(field(AGE), 2),
     exists(field(AGE)),
     And(Unit, eq(field(AGE), 2)), Or(eq(field(AGE), 2), Unit), Not(Unit),
     And(gt(field(AGE), 1), lt(field(AGE), 3))}

InitFilter == Init

\* Table::insert of a document of FilterDocs
InsertDoc ==
    /\ created
    /\ MaxRowid(rows) < MaxRows
    /\ \E d \in FilterDocs :
          /\ rows' = ExecInsert(Json_to_sql(d), rows)
          /\ last' = [NoLast EXCEPT !.op = "Table::insert",
                                    !.value = Json_to_sql(d),
                                    !.stmt = InsertStatement(Table)]
    /\ UNCHANGED <<it, call, created>>

\* Iterator::filter with a filter of KeyFilters
FilterBy ==
    /\ created
    /\ \E f \in KeyFilters :
          /\ it' = filter(it, f)
          /\ last' = [NoLast EXCEPT !.op = "filter", !.arg = f]
    /\ UNCHANGED <<rows, call, created>>

NextFilter == InsertDoc \/ FilterBy \/ Id

SpecFilter == InitFilter /\ [][NextFilter]_vars

\* the ids a read of the table under the filter f returns
IdsBy(f) == Read(filter(iter(Table), f), "id", <<>>, TI64, rows).res.vals

\* the elements of a sequence
Range(seq) == {seq[i] : i \in 1 .. Len(seq)}

\* the ids, in row order, of the rows whose age is a number that P holds of
IdsWhere(P(_)) ==
    IdsOf(SelectSeq(rows, LAMBDA r : AgeOf(r).j = "num" /\ P(AgeOf(r).n)))

\* the call record is an Iterator::id under the filter f, without sort,
\* skip and take
IdReadUnder(f) ==
    last.op = "id" /\ it.where_ = f /\ it.order_by = Unit
       /\ it.limit = <<>> /\ it.offset = <<>>

\* C22: the rows key.eq(v).not() selects and the rows key.eq(v) selects are
\* disjoint, together they are the rows whose key is a number, and a row
\* whose key is null or absent is in neither
C22_NotEqComplement ==
    /\ \A v \in CmpValues :
          /\ IdsBy(eq(field(AGE), v)) = IdsWhere(LAMBDA n : n = v)
          /\ IdsBy(Not(eq(field(AGE), v))) = IdsWhere(LAMBDA n : n # v)
          /\ Range(IdsBy(eq(field(AGE), v)))
                \cap Range(IdsBy(Not(eq(field(AGE), v)))) = {}
          /\ Range(IdsBy(eq(field(AGE), v)))
                \cup Range(IdsBy(Not(eq(field(AGE), v))))
                = Range(IdsWhere(LAMBDA n : TRUE))
    /\ IdReadUnder(Not(eq(field(AGE), 2)))
          => last.res = Ok(IdsWhere(LAMBDA n : n # 2))

\* ids read under not(eq(age, 2)) from a row with age null and a row with
\* age 1: the second alone
C22_Witness ==
    /\ IdReadUnder(Not(eq(field(AGE), 2)))
    /\ Len(rows) = 2
    /\ AgeOf(rows[1]) = JNull /\ AgeOf(rows[2]) = JNum(1)
    /\ last.res = Ok(<<2>>)

\* C24: filter(key.exists()) selects the rows that have the key with a
\* value that is not null: a row without the member and a row whose member
\* is null are left out
C24_ExistsSelectsPresent ==
    /\ IdsBy(exists(field(AGE))) = IdsWhere(LAMBDA n : TRUE)
    /\ \A i \in 1 .. Len(rows) :
          AgeOf(rows[i]) \in {Absent, JNull}
             => rows[i].id \notin Range(IdsBy(exists(field(AGE))))
    /\ IdReadUnder(exists(field(AGE)))
          => last.res = Ok(IdsWhere(LAMBDA n : TRUE))

\* ids read under exists(age) from a row with age and a row whose age is
\* null
C24_Witness ==
    /\ IdReadUnder(exists(field(AGE)))
    /\ Len(rows) = 2
    /\ AgeOf(rows[1]) = JNum(3) /\ AgeOf(rows[2]) = JNull
    /\ last.res = Ok(<<1>>)

\* the text of the key age in a statement
AgeKey == "json_extract(data, \"$.age\")"

\* C26: gt, gte, lt and lte render the key on the left and the value on the
\* right with >, >=, <, <= and select the rows whose key is a number
\* greater, greater or equal, less, less or equal; lt is the complement of
\* gte and lte of gt over the rows whose key is a number
C26_OrderComparisons ==
    /\ \A v \in CmpValues :
          /\ where_(gt(field(AGE), v), "data") = << <<AgeKey, ">", ToString(v)>> >>
          /\ where_(gte(field(AGE), v), "data") = << <<AgeKey, ">=", ToString(v)>> >>
          /\ where_(lt(field(AGE), v), "data") = << <<AgeKey, "<", ToString(v)>> >>
          /\ where_(lte(field(AGE), v), "data") = << <<AgeKey, "<=", ToString(v)>> >>
          /\ IdsBy(gt(field(AGE), v)) = IdsWhere(LAMBDA n : n > v)
          /\ IdsBy(gte(field(AGE), v)) = IdsWhere(LAMBDA n : n >= v)
          /\ IdsBy(lt(field(AGE), v)) = IdsWhere(LAMBDA n : n < v)
          /\ IdsBy(lte(field(AGE), v)) = IdsWhere(LAMBDA n : n <= v)
          /\ Range(IdsBy(lt(field(AGE), v)))
                = Range(IdsWhere(LAMBDA n : TRUE)) \ Range(IdsBy(gte(field(AGE), v)))
          /\ Range(IdsBy(lte(field(AGE), v)))
                = Range(IdsWhere(LAMBDA n : TRUE)) \ Range(IdsBy(gt(field(AGE), v)))
    /\ IdReadUnder(lt(field(AGE), 2)) => last.res = Ok(IdsWhere(LAMBDA n : n < 2))
    /\ IdReadUnder(lte(field(AGE), 2)) => last.res = Ok(IdsWhere(LAMBDA n : n <= 2))
    /\ IdReadUnder(gt(field(AGE), 2)) => last.res = Ok(IdsWhere(LAMBDA n : n > 2))
    /\ IdReadUnder(gte(field(AGE), 2)) => last.res = Ok(IdsWhere(LAMBDA n : n >= 2))

\* ids read under lt(age, 2) from a row with age 3 and a row with age 1
C26_Witness ==
    /\ IdReadUnder(lt(field(AGE), 2))
    /\ Len(rows) = 2
    /\ AgeOf(rows[1]) = JNum(3) /\ AgeOf(rows[2]) = JNum(1)
    /\ last.res = Ok(<<2>>)

\* C28: And, Or and Not render Some text also over the empty filter (): the
\* child that renders None gives no text between the parentheses and the
\* AND, OR, NOT that are still written, and the statement has a WHERE
C28_CompositeOverEmpty ==
    /\ it.where_ = And(Unit, eq(field(AGE), 2)) =>
          where_(it.where_, it.data_key)
             = << <<"(", "AND", AgeKey, "=", "2", ")">> >>
    /\ it.where_ = Or(eq(field(AGE), 2), Unit) =>
          where_(it.where_, it.data_key)
             = << <<"(", AgeKey, "=", "2", "OR", ")">> >>
    /\ it.where_ = Not(Unit) =>
          where_(it.where_, it.data_key) = << <<"NOT", "(", ")">> >>
    /\ it.where_.t \in {"and", "or", "not"} =>
          /\ where_(it.where_, it.data_key) # <<>>
          /\ last.op = "id" =>
                SubSeq(last.stmt, 5, Len(last.stmt))
                   = <<"WHERE">> \o where_(it.where_, it.data_key)[1]

\* ids read under ().and(eq(age, 2)): the statement has the WHERE clause
\* ( AND json_extract(data, "$.age") = 2)
C28_Witness ==
    /\ last.op = "id" /\ it.where_ = And(Unit, eq(field(AGE), 2))
    /\ last.stmt = <<"SELECT", "id", "FROM", "people", "WHERE",
                     "(", "AND", AgeKey, "=", "2", ")">>

---------------------------------------------------------------------------
(* Specification of the document codec: a column value is decoded as       *)
(* Json<T>                                                                 *)

\* the JSON texts decoded
CodecTexts ==
    {Malformed, JNull, JNum(1), JNum(2), JNum(300),
     JArr(<<JNum(1), JNum(2)>>), JArr(<<JNum(1)>>)} \cup Docs

\* the column values decoded
ColumnValues ==
    {SNull, SReal} \cup {SInt(n) : n \in 0 .. 3}
       \cup {SText(j) : j \in CodecTexts} \cup {SBlob(j) : j \in CodecTexts}

\* the types decoded into
CodecTypes == {TU8, TOpt(TU8), TValue, TPerson, TTuple(<<TU8, TU8>>)}

InitCodec == Init

\* Json::<T>::column_result(value)
Decode ==
    /\ \E v \in ColumnValues : \E t \in CodecTypes :
          \E r \in {Json_column_result(t, v)} :
             last' = [NoLast EXCEPT
                         !.op = "column_result", !.value = v, !.ty = t,
                         !.res = IF r.ok THEN Ok(<<r.val>>) ELSE Err(r.err)]
    /\ UNCHANGED <<rows, it, call, created>>

NextCodec == Decode

SpecCodec == InitCodec /\ [][NextCodec]_vars

\* the value of type t a JSON value denotes, if it denotes one
Denotes(t, j) ==
    CASE t = TValue -> TRUE
      [] t = TU8 -> j.j = "num" /\ j.n \in 0 .. 255
      [] t = TOpt(TU8) -> j = JNull \/ (j.j = "num" /\ j.n \in 0 .. 255)
      [] t = TPerson ->
            j.j = "obj" /\ j.m[Str(AGE)].j = "num" /\ j.m[Str(AGE)].n \in 0 .. 255
      [] OTHER ->
            /\ j.j = "arr" /\ Len(j.items) = 2
            /\ \A i \in 1 .. 2 : j.items[i].j = "num" /\ j.items[i].n \in 0 .. 255

\* C25: decoding a document from a column value that is neither text nor
\* blob fails with InvalidType whatever the type asked for (nothing is
\* parsed); text or blob that is malformed, or well-formed but not of the
\* type asked for, fails with the other error, Other; the rest decodes
C25_TypeErrorOrCodecError ==
    last.op = "column_result" =>
       IF last.value.s \notin {"text", "blob"}
       THEN last.res = Err("InvalidType")
       ELSE IF last.value.json = Malformed \/ ~Denotes(last.ty, last.value.json)
       THEN last.res = Err("Other") /\ last.res.err # "InvalidType"
       ELSE last.res.ok /\ Len(last.res.vals) = 1

\* an integer column decoded as a serde_json::Value: InvalidType
C25_Witness ==
    /\ last.op = "column_result"
    /\ last.value = SInt(1) /\ last.ty = TValue
    /\ last.res = Err("InvalidType")

\* malformed text, and a number out of the range of u8, both fail with Other
C25_WitnessCodec ==
    /\ last.op = "column_result"
    /\ last.value \in {SText(Malformed), SBlob(JNum(300))} /\ last.ty = TU8
    /\ last.res = Err("Other")

---------------------------------------------------------------------------
(* Specification of the path formatter: a key is chosen, then formatted,   *)
(* and a formatted key may be formatted again.                             *)

InitKey ==
    /\ rows = <<>>
    /\ it = iter(Table)
    /\ last = NoLast
    /\ \E k \in Keys : call = [NoCall EXCEPT !.arg = k]
    /\ created = TRUE

\* the formatter a call record names
Formatter(fn, chars) ==
    IF fn = "format_key" THEN format_key(chars) ELSE lib_format_key(chars)

\* format_key(arg) of key.rs
FormatKey ==
    /\ call.fn = "none"
    /\ call' = [fn |-> "format_key", arg |-> call.arg,
                ret |-> format_key(call.arg), n |-> 1]
    /\ UNCHANGED <<rows, it, last, created>>

\* format_key(arg) of lib.rs
LibFormatKey ==
    /\ call.fn = "none"
    /\ call' = [fn |-> "lib_format_key", arg |-> call.arg,
                ret |-> lib_format_key(call.arg), n |-> 1]
    /\ UNCHANGED <<rows, it, last, created>>

\* the formatted key is formatted again by the same formatter
Reformat ==
    /\ call.fn \in {"format_key", "lib_format_key"}
    /\ call.n = 1
    /\ call' = [call EXCEPT !.arg = call.ret,
                            !.ret = Formatter(call.fn, call.ret),
                            !.n = 2]
    /\ UNCHANGED <<rows, it, last, created>>

NextKey == FormatKey \/ LibFormatKey \/ Reformat

SpecKey == InitKey /\ [][NextKey]_vars

Formatted == call.fn \in {"format_key", "lib_format_key"}

\* C6: every formatted key begins with the root marker "$"; a key that
\* already begins with "$" is returned unchanged; formatting a formatted
\* key returns it unchanged (idempotence), for both formatters.
C6_FormatKeyIdempotent ==
    Formatted =>
        /\ CharsNext(call.ret, 1) = <<"$">>
        /\ (CharsNext(call.arg, 1) = <<"$">> => call.ret = call.arg)
        /\ (call.n = 2 => call.ret = call.arg)
        /\ Formatter(call.fn, call.ret) = call.ret

\* a key without the root marker was formatted and then formatted again
C6_Witness ==
    /\ call.fn = "format_key"
    /\ call.n = 2
    /\ call.ret = <<"$", ".", "x", "x">>

\* C7: a key that begins with "." or "[" is formatted as "$" immediately
\* followed by the key, with no separator inserted, by the formatter of
\* either file.
C7_LeadingSeparatorKept ==
    (Formatted /\ call.n = 1 /\ CharsNext(call.arg, 1) \in {<<".">>, <<"[">>})
        => call.ret = <<"$">> \o call.arg

\* C8: a non-empty key whose first character is none of "$", ".", "[" is
\* formatted as "$." followed by the whole key, and the empty key as "$",
\* by the formatter of either file.
C8_SeparatorInserted ==
    (Formatted /\ call.n = 1) =>
        /\ (call.arg = <<>> => call.ret = <<"$">>)
        /\ (/\ call.arg # <<>>
            /\ CharsNext(call.arg, 1) \notin {<<"$">>, <<".">>, <<"[">>}
            => call.ret = <<"$", ".">> \o call.arg)

====
